---- MODULE Spec2Model ----
(***************************************************************************)
(* Model of the FastAPI test-case service (src/main_sdk.py) and of the     *)
(* response normalizer it calls (src/invoke_sdk.py).                       *)
(*                                                                         *)
(* A text is a sequence of lexemes.  Single characters that the code's     *)
(* regular expressions and the JSON grammar distinguish (quote, backslash, *)
(* braces, brackets, colon, comma, space, newline) are lexemes of their    *)
(* own; a run of three backticks and every word (field names, values,      *)
(* digits) is one lexeme.  The regular expressions only ever test a word   *)
(* for equality with a field name or for membership in a character class   *)
(* that contains all of its characters, so they act on lexemes exactly as  *)
(* they act on the characters.                                             *)
(***************************************************************************)
EXTENDS Integers, Sequences, FiniteSets, TLC

\* ------------------------------------------------------------------ bounds
MaxLen == 4          \* longest free-form response, in lexemes
MaxRecords == 7      \* most record blocks in a generated document
MaxFaults == 1       \* most per-identifier faults injected in one request

\* ----------------------------------------------------------------- lexemes
QUOTE == "\""
BSLASH == "\\"
NL == "\n"
SP == " "
FENCE == "<fence>"   \* the run of three backticks
LBRACE == "{"
RBRACE == "}"
LBRACK == "["
RBRACK == "]"
COLON == ":"
COMMA == ","

\* Python's \s and str.strip() whitespace, as far as the alphabet has it
Whitespace == {SP, NL}

Digits == <<"0", "1", "2", "3", "4", "5", "6", "7", "8", "9">>

IsDigit(t) == \E d \in 1..10 : Digits[d] = t

DigitValue(t) == (CHOOSE d \in 1..10 : Digits[d] = t) - 1

\* ------------------------------------------------------- Python str | None
PyStr(s) == [none |-> FALSE, s |-> s]

None == [none |-> TRUE, s |-> <<>>]

\* truthiness of an optional string: None and "" are falsy
Truthy(r) == ~r.none /\ r.s # <<>>

\* --------------------------------------------------- clean_json_response
\* `^` under re.MULTILINE: start of the string or just after a newline
IsLineStart(text, i) == i = 1 \/ text[i - 1] = NL

RECURSIVE SkipWs(_, _)
\* first index >= i that is not whitespace (Len+1 when there is none): \s*
SkipWs(text, i) ==
    IF i > Len(text) \/ text[i] \notin Whitespace THEN i
    ELSE SkipWs(text, i + 1)

\* the least element of a non-empty set of indices
Min(S) == CHOOSE p \in S : \A q \in S : p <= q

\* ^```json matches at i
AtFenceJson(text, i) ==
    /\ IsLineStart(text, i)
    /\ text[i] = FENCE
    /\ i + 1 <= Len(text)
    /\ text[i + 1] = "json"

RECURSIVE SubFenceJson(_, _)
\* re.sub(r'^```json\s*', '', response, flags=re.MULTILINE), scanning from i:
\* the text up to the leftmost match is kept, the match with the whitespace
\* after it is dropped, and the scan goes on behind it
SubFenceJson(text, i) ==
    LET hits == {p \in i..Len(text) : AtFenceJson(text, p)}
    IN  IF hits = {} THEN SubSeq(text, i, Len(text))
        ELSE SubSeq(text, i, Min(hits) - 1) \o SubFenceJson(text, SkipWs(text, Min(hits) + 2))

\* `$` under re.MULTILINE: end of the string or just before a newline
IsLineEnd(text, p) == p = Len(text) + 1 \/ text[p] = NL

\* end (exclusive) of the match of ```\s*$ whose fence is at i, 0 if none:
\* \s* is greedy and gives back whitespace until `$` holds
FenceLineEnd(text, i) ==
    LET k == SkipWs(text, i + 1)
        ends == {p \in (i + 1)..k : IsLineEnd(text, p)}
    IN  IF ends = {} THEN 0
        ELSE CHOOSE p \in ends : \A q \in ends : q <= p

\* ^```\s*$ matches at i
AtFenceBare(text, i) ==
    /\ IsLineStart(text, i)
    /\ text[i] = FENCE
    /\ FenceLineEnd(text, i) # 0

RECURSIVE SubFenceBare(_, _)
\* re.sub(r'^```\s*$', '', response, flags=re.MULTILINE), scanning from i
SubFenceBare(text, i) ==
    LET hits == {p \in i..Len(text) : AtFenceBare(text, p)}
    IN  IF hits = {} THEN SubSeq(text, i, Len(text))
        ELSE SubSeq(text, i, Min(hits) - 1) \o SubFenceBare(text, FenceLineEnd(text, Min(hits)))

RECURSIVE LStrip(_)
LStrip(text) ==
    IF text # <<>> /\ Head(text) \in Whitespace THEN LStrip(Tail(text))
    ELSE text

RECURSIVE RStrip(_)
RStrip(text) ==
    IF text # <<>> /\ text[Len(text)] \in Whitespace
    THEN RStrip(SubSeq(text, 1, Len(text) - 1))
    ELSE text

\* str.strip()
Strip(text) == RStrip(LStrip(text))

\* the text after fence removal and trimming (lines 49-51)
Unfenced(text) == Strip(SubFenceBare(SubFenceJson(text, 1), 1))

\* str.find / str.rfind, 1-based, 0 for Python's -1
Find(text, c) ==
    IF \E i \in 1..Len(text) : text[i] = c
    THEN CHOOSE i \in 1..Len(text) :
             text[i] = c /\ \A j \in 1..(i - 1) : text[j] # c
    ELSE 0

RFind(text, c) ==
    IF \E i \in 1..Len(text) : text[i] = c
    THEN CHOOSE i \in 1..Len(text) :
             text[i] = c /\ \A j \in (i + 1)..Len(text) : text[j] # c
    ELSE 0

\* IsolateBraces cutting at the first } instead of the last
IsolateBraces_FirstClose(text) ==
    LET start_idx == Find(text, LBRACE)
        end_idx == Find(text, RBRACE)
    IN  IF start_idx # 0 /\ end_idx # 0 /\ end_idx > start_idx
        THEN SubSeq(text, start_idx, end_idx)
        ELSE text

\* lines 53-60: the substring from the first { to the last }, else the text
IsolateBraces(text) ==
    LET start_idx == Find(text, LBRACE)
        end_idx == RFind(text, RBRACE)
    IN  IF start_idx # 0 /\ end_idx # 0 /\ end_idx > start_idx
        THEN SubSeq(text, start_idx, end_idx)
        ELSE text

\* clean_json_response on a non-empty string
CleanText(text) == IsolateBraces(Unfenced(text))

\* clean_json_response without the guard of lines 45-46
clean_json_response_NoGuard(response) == PyStr(CleanText(response.s))

\* ExternalFHIRAgentAccess.clean_json_response
clean_json_response(response) ==
    IF ~Truthy(response) THEN response
    ELSE PyStr(CleanText(response.s))

\* ------------------------------------------------------------ JSON values
\* what json.loads returns: every value has the same shape, `kind` says which
\* of the other fields is meaningful
JNull == [kind |-> "null", num |-> 0, str |-> <<>>, keys |-> <<>>, items |-> <<>>]

JBool(b) == [kind |-> "bool", num |-> IF b THEN 1 ELSE 0, str |-> <<>>, keys |-> <<>>, items |-> <<>>]

JNum(n) == [kind |-> "num", num |-> n, str |-> <<>>, keys |-> <<>>, items |-> <<>>]

JStr(s) == [kind |-> "str", num |-> 0, str |-> s, keys |-> <<>>, items |-> <<>>]

JArr(items) == [kind |-> "arr", num |-> 0, str |-> <<>>, keys |-> <<>>, items |-> items]

\* a dict: keys in insertion order, items[k] the value of keys[k]
JObj(keys, items) == [kind |-> "obj", num |-> 0, str |-> <<>>, keys |-> keys, items |-> items]

KeyIndex(keys, k) ==
    IF \E n \in 1..Len(keys) : keys[n] = k
    THEN CHOOSE n \in 1..Len(keys) : keys[n] = k
    ELSE 0

\* d[k] = v on a dict: a repeated key keeps its place and takes the new value
DictSet(d, k, v) ==
    LET n == KeyIndex(d.keys, k)
    IN  IF n = 0 THEN JObj(Append(d.keys, k), Append(d.items, v))
        ELSE JObj(d.keys, [d.items EXCEPT ![n] = v])

\* d[k] on a dict that has k
DictGet(d, k) == d.items[KeyIndex(d.keys, k)]

\* d.get(k, default)
DictGetOr(d, k, default) ==
    IF KeyIndex(d.keys, k) = 0 THEN default ELSE DictGet(d, k)

\* ------------------------------------------------------------ json.loads
ParseFail == [ok |-> FALSE, val |-> JNull, pos |-> 0]

ParseOk(v, p) == [ok |-> TRUE, val |-> v, pos |-> p]

RECURSIVE ScanString(_, _, _)
\* the body of a string literal from index j on, acc the decoded prefix:
\* ends at the first unescaped quote; a raw newline is a control character
\* and a backslash must be followed by a quote or a backslash
ScanString(text, j, acc) ==
    IF j > Len(text) THEN ParseFail
    ELSE IF text[j] = QUOTE THEN ParseOk(JStr(acc), j + 1)
    ELSE IF text[j] = NL THEN ParseFail
    ELSE IF text[j] = BSLASH
         THEN IF j + 1 <= Len(text) /\ text[j + 1] \in {QUOTE, BSLASH}
              THEN ScanString(text, j + 2, Append(acc, text[j + 1]))
              ELSE ParseFail
    ELSE ScanString(text, j + 1, Append(acc, text[j]))

RECURSIVE ScanNumber(_, _, _)
\* value and end of the run of digits that starts at j
ScanNumber(text, j, acc) ==
    IF j <= Len(text) /\ IsDigit(text[j])
    THEN ScanNumber(text, j + 1, 10 * acc + DigitValue(text[j]))
    ELSE ParseOk(JNum(acc), j)

RECURSIVE ParseValue(_, _)
RECURSIVE ParseMembers(_, _, _)
RECURSIVE ParseElements(_, _, _)

\* one `"key" : value` pair at j and what follows it, d the dict so far
ParseMembers(text, j, d) ==
    IF j > Len(text) \/ text[j] # QUOTE THEN ParseFail
    ELSE LET key == ScanString(text, j + 1, <<>>)
         IN  IF ~key.ok THEN ParseFail
             ELSE LET c == SkipWs(text, key.pos)
                  IN  IF c > Len(text) \/ text[c] # COLON THEN ParseFail
                      ELSE LET v == ParseValue(text, c + 1)
                           IN  IF ~v.ok THEN ParseFail
                               ELSE LET e == SkipWs(text, v.pos)
                                        d2 == DictSet(d, key.val.str, v.val)
                                    IN  IF e > Len(text) THEN ParseFail
                                        ELSE IF text[e] = RBRACE THEN ParseOk(d2, e + 1)
                                        ELSE IF text[e] = COMMA
                                             THEN ParseMembers(text, SkipWs(text, e + 1), d2)
                                        ELSE ParseFail

\* one array element at j and what follows it, acc the elements so far
ParseElements(text, j, acc) ==
    LET v == ParseValue(text, j)
    IN  IF ~v.ok THEN ParseFail
        ELSE LET e == SkipWs(text, v.pos)
                 acc2 == Append(acc, v.val)
             IN  IF e > Len(text) THEN ParseFail
                 ELSE IF text[e] = RBRACK THEN ParseOk(JArr(acc2), e + 1)
                 ELSE IF text[e] = COMMA THEN ParseElements(text, e + 1, acc2)
                 ELSE ParseFail

\* the JSON value that starts at or after i (leading whitespace skipped)
ParseValue(text, i) ==
    LET j == SkipWs(text, i)
    IN  IF j > Len(text) THEN ParseFail
        ELSE IF text[j] = LBRACE
             THEN LET m == SkipWs(text, j + 1)
                  IN  IF m <= Len(text) /\ text[m] = RBRACE
                      THEN ParseOk(JObj(<<>>, <<>>), m + 1)
                      ELSE ParseMembers(text, m, JObj(<<>>, <<>>))
        ELSE IF text[j] = LBRACK
             THEN LET m == SkipWs(text, j + 1)
                  IN  IF m <= Len(text) /\ text[m] = RBRACK
                      THEN ParseOk(JArr(<<>>), m + 1)
                      ELSE ParseElements(text, m, <<>>)
        ELSE IF text[j] = QUOTE THEN ScanString(text, j + 1, <<>>)
        ELSE IF IsDigit(text[j])
             THEN IF text[j] = "0" /\ j + 1 <= Len(text) /\ IsDigit(text[j + 1])
                  THEN ParseOk(JNum(0), j + 1)
                  ELSE ScanNumber(text, j, 0)
        ELSE IF text[j] = "null" THEN ParseOk(JNull, j + 1)
        ELSE IF text[j] = "true" THEN ParseOk(JBool(TRUE), j + 1)
        ELSE IF text[j] = "false" THEN ParseOk(JBool(FALSE), j + 1)
        ELSE ParseFail

\* json.loads(text): ok = FALSE stands for json.JSONDecodeError
json_loads(text) ==
    LET v == ParseValue(text, 1)
    IN  IF v.ok /\ SkipWs(text, v.pos) = Len(text) + 1 THEN v
        ELSE ParseFail

\* ----------------------------------------------- super_simple_extraction
WINDOW == 1000       \* characters of text searched after an identifier
MIN_CASES == 5       \* a batch must have more test cases than this

\* long runs of filler characters, each one lexeme: the words "x...x" of
\* 100 to 1000 letters
PadWidth ==
    [w \in {"x100"} |-> 100] @@ [w \in {"x400"} |-> 400] @@ [w \in {"x496"} |-> 496]
    @@ [w \in {"x497"} |-> 497] @@ [w \in {"x510"} |-> 510] @@ [w \in {"x518"} |-> 518]
    @@ [w \in {"x519"} |-> 519] @@ [w \in {"x600"} |-> 600] @@ [w \in {"x1000"} |-> 1000]

\* number of characters of the words of the alphabet
WordWidth ==
    [w \in {"json", "JSON", "null", "true", "EDGE", "Here"} |-> 4]
    @@ [w \in {"TC1", "TC2", "TC3", "TC4", "TC5", "TC6", "TC7", "TC8", "TC9"} |-> 3]
    @@ [w \in {"d1", "d2", "e1", "e2", "p1", "p2", "s1", "s2"} |-> 2]
    @@ [w \in {"false", "Cases", "SMOKE", "MAYBE"} |-> 5]
    @@ [w \in {"Subtype"} |-> 7]
    @@ [w \in {"POSITIVE", "NEGATIVE"} |-> 8]
    @@ [w \in {"TestSteps", "TestCases"} |-> 9]
    @@ [w \in {"TestCaseID", "FUNCTIONAL", "REGRESSION"} |-> 10]
    @@ [w \in {"TestCaseType"} |-> 12]
    @@ [w \in {"ExpectedOutput", "TotalTestCases"} |-> 14]
    @@ [w \in {"TestDescription"} |-> 15]
    @@ [w \in {"PassFailCriteria", "SubtypeBreakdown"} |-> 16]
    @@ [w \in {"StatisticalSummary"} |-> 18]
    @@ [w \in {"TestCaseTypeBreakdown"} |-> 21]
    @@ PadWidth

\* number of characters of a lexeme
Width(t) ==
    IF t = FENCE THEN 3
    ELSE IF t \in DOMAIN WordWidth THEN WordWidth[t]
    ELSE 1

RECURSIVE WidthSum(_, _, _, _)
\* characters of the lexemes a..b of the text whose width is in `widths`
WidthSum(text, a, b, widths) ==
    IF widths = {} THEN 0
    ELSE LET w == Min(widths)
         IN  w * Cardinality({k \in a..b : Width(text[k]) = w})
             + WidthSum(text, a, b, widths \ {w})

\* number of characters of the lexemes a..b of the text
RangeWidth(text, a, b) == WidthSum(text, a, b, {Width(text[k]) : k \in a..b})

\* len() of a string
TextWidth(s) == RangeWidth(s, 1, Len(s))

\* index of the last lexeme that lies wholly within the first WINDOW
\* characters from lexeme `start` on.  A word cut by the end of the slice is
\* the last thing in it, and every pattern ends in a quote or a bracket, so
\* the cut word is part of no match and is left out.
ChunkEnd(text, start) ==
    IF RangeWidth(text, start, Len(text)) <= WINDOW THEN Len(text)
    ELSE CHOOSE e \in (start - 1)..(Len(text) - 1) :
             /\ RangeWidth(text, start, e) <= WINDOW
             /\ RangeWidth(text, start, e + 1) > WINDOW

\* text[start:start + 1000]
Chunk(text, start) == SubSeq(text, start, ChunkEnd(text, start))

\* first index >= j that holds c, 0 if there is none
NextOf(text, j, c) ==
    IF \E k \in j..Len(text) : text[k] = c
    THEN CHOOSE k \in j..Len(text) :
             text[k] = c /\ \A m \in j..(k - 1) : text[m] # c
    ELSE 0

\* "name"\s*:\s*" matched at i: the index just after the opening quote of
\* the value, 0 when the pattern does not match at i
ValueStart(text, i, name) ==
    IF i + 2 <= Len(text) /\ text[i] = QUOTE /\ text[i + 1] = name /\ text[i + 2] = QUOTE
    THEN LET c == SkipWs(text, i + 3)
         IN  IF c <= Len(text) /\ text[c] = COLON
             THEN LET v == SkipWs(text, c + 1)
                  IN  IF v <= Len(text) /\ text[v] = QUOTE THEN v + 1 ELSE 0
             ELSE 0
    ELSE 0

NoMatch == [found |-> FALSE, start |-> 0, group |-> <<>>]

\* "name"\s*:\s*"([^"]*(?:\\.[^"]*)*)" tried at i.  [^"]* takes everything
\* up to the next quote, backslashes included, and the closing quote then
\* matches there; without a later quote no alternative matches either.
\* The pattern "([^"]*)" of lines 45-46 matches the same way.
MatchFieldAt(text, i, name) ==
    LET v == ValueStart(text, i, name)
        q == IF v = 0 THEN 0 ELSE NextOf(text, v, QUOTE)
    IN  IF v # 0 /\ q # 0
        THEN [found |-> TRUE, start |-> i, group |-> SubSeq(text, v, q - 1)]
        ELSE NoMatch

\* re.search of a field pattern: the leftmost match
SearchField(text, name) ==
    LET hits == {i \in 1..Len(text) : MatchFieldAt(text, i, name).found}
    IN  IF hits = {} THEN NoMatch
        ELSE MatchFieldAt(text, CHOOSE i \in hits : \A j \in hits : i <= j, name)

RECURSIVE FindAllIds(_, _)
\* re.findall(r'"TestCaseID"\s*:\s*"([^"]+)"', text) from index i on:
\* [^"]+ needs at least one character; the scan takes the leftmost match
\* and goes on behind its closing quote, so matches do not overlap
FindAllIds(text, i) ==
    LET hits == {p \in i..Len(text) :
                    /\ MatchFieldAt(text, p, "TestCaseID").found
                    /\ MatchFieldAt(text, p, "TestCaseID").group # <<>>}
    IN  IF hits = {} THEN <<>>
        ELSE LET m == MatchFieldAt(text, Min(hits), "TestCaseID")
             IN  <<m.group>>
                 \o FindAllIds(text, ValueStart(text, m.start, "TestCaseID") + Len(m.group) + 1)

\* re.search(f'"TestCaseID"\\s*:\\s*"{re.escape(testcase_id)}"', text):
\* start of the leftmost occurrence of the identifier, 0 if there is none
SearchId(text, testcase_id) ==
    LET hits == {i \in 1..Len(text) :
                    LET m == MatchFieldAt(text, i, "TestCaseID")
                    IN  m.found /\ m.group = testcase_id}
    IN  IF hits = {} THEN 0
        ELSE CHOOSE i \in hits : \A j \in hits : i <= j

RECURSIVE FindAllStrings(_, _)
\* re.findall(r'"([^"]*(?:\\.[^"]*)*)"', steps_content) from index i on
FindAllStrings(text, i) ==
    IF i > Len(text) THEN <<>>
    ELSE LET q == IF text[i] = QUOTE THEN NextOf(text, i + 1, QUOTE) ELSE 0
         IN  IF q # 0
             THEN <<SubSeq(text, i + 1, q - 1)>> \o FindAllStrings(text, q + 1)
             ELSE FindAllStrings(text, i + 1)

\* "TestSteps"\s*:\s*\[ matched at i: the index just after the bracket
StepsStart(text, i) ==
    IF i + 2 <= Len(text) /\ text[i] = QUOTE /\ text[i + 1] = "TestSteps" /\ text[i + 2] = QUOTE
    THEN LET c == SkipWs(text, i + 3)
         IN  IF c <= Len(text) /\ text[c] = COLON
             THEN LET v == SkipWs(text, c + 1)
                  IN  IF v <= Len(text) /\ text[v] = LBRACK THEN v + 1 ELSE 0
             ELSE 0
    ELSE 0

\* re.search(r'"TestSteps"\s*:\s*\[(.*?)\]', chunk, re.DOTALL): the lazy
\* .*? stops at the first closing bracket
SearchSteps(text) ==
    LET hits == {i \in 1..Len(text) :
                    StepsStart(text, i) # 0 /\ NextOf(text, StepsStart(text, i), RBRACK) # 0}
    IN  IF hits = {} THEN NoMatch
        ELSE LET i == CHOOSE i \in hits : \A j \in hits : i <= j
                 b == StepsStart(text, i)
             IN  [found |-> TRUE, start |-> i, group |-> SubSeq(text, b, NextOf(text, b, RBRACK) - 1)]

\* a dict key or a fixed sentence: a string of one word
W(word) == <<word>>

DefaultSteps ==
    <<JStr(W("Execute test validation")), JStr(W("Verify expected behavior")),
      JStr(W("Confirm test results"))>>

\* lines 48-58: the quoted strings of the steps block, the defaults if none
ExtractSteps(chunk) ==
    LET steps_match == SearchSteps(chunk)
        step_strings == IF steps_match.found
                        THEN FindAllStrings(steps_match.group, 1)
                        ELSE <<>>
    IN  IF step_strings = <<>> THEN DefaultSteps
        ELSE [k \in 1..Len(step_strings) |-> JStr(step_strings[k])]

\* m.group(1) if m else default
GroupOr(m, default) == IF m.found THEN JStr(m.group) ELSE JStr(default)

\* BuildTestCase giving up on the other fields when the description is
\* missing: every field gets its default then
BuildTestCase_NeedsDescription(text, start, testcase_id) ==
    LET chunk == IF SearchField(Chunk(text, start), "TestDescription").found
                 THEN Chunk(text, start) ELSE <<>>
    IN  JObj(<<W("TestCaseID"), W("TestDescription"), W("ExpectedOutput"), W("TestSteps"),
               W("PassFailCriteria"), W("TestCaseType"), W("Subtype")>>,
             <<JStr(testcase_id),
               GroupOr(SearchField(chunk, "TestDescription"),
                       W("Validation test for ") \o testcase_id),
               GroupOr(SearchField(chunk, "ExpectedOutput"),
                       W("Expected system behavior validated")),
               JArr(ExtractSteps(chunk)),
               GroupOr(SearchField(chunk, "PassFailCriteria"),
                       W("Test passes when validation criteria are met")),
               GroupOr(SearchField(chunk, "TestCaseType"), W("FUNCTIONAL")),
               GroupOr(SearchField(chunk, "Subtype"), W("POSITIVE"))>>)

\* lines 39-69: the test case built from the chunk that starts at `start`
BuildTestCase(text, start, testcase_id) ==
    LET chunk == Chunk(text, start)
    IN  JObj(<<W("TestCaseID"), W("TestDescription"), W("ExpectedOutput"), W("TestSteps"),
               W("PassFailCriteria"), W("TestCaseType"), W("Subtype")>>,
             <<JStr(testcase_id),
               GroupOr(SearchField(chunk, "TestDescription"),
                       W("Validation test for ") \o testcase_id),
               GroupOr(SearchField(chunk, "ExpectedOutput"),
                       W("Expected system behavior validated")),
               JArr(ExtractSteps(chunk)),
               GroupOr(SearchField(chunk, "PassFailCriteria"),
                       W("Test passes when validation criteria are met")),
               GroupOr(SearchField(chunk, "TestCaseType"), W("FUNCTIONAL")),
               GroupOr(SearchField(chunk, "Subtype"), W("POSITIVE"))>>)

\* ExtractInto putting the new test case in front of the list
ExtractInto_Prepend(test_cases, text, testcase_id) ==
    LET start == SearchId(text, testcase_id)
    IN  IF start = 0 THEN test_cases
        ELSE <<BuildTestCase(text, start, testcase_id)>> \o test_cases

\* lines 30-71, one iteration without a fault: the list after it
ExtractInto(test_cases, text, testcase_id) ==
    LET start == SearchId(text, testcase_id)
    IN  IF start = 0 THEN test_cases
        ELSE Append(test_cases, BuildTestCase(text, start, testcase_id))

RECURSIVE ExtractFrom(_, _, _, _)
\* the loop of lines 28-76 from iteration i on, when no iteration faults
ExtractFrom(test_cases, text, testcase_ids, i) ==
    IF i > Len(testcase_ids) THEN test_cases
    ELSE ExtractFrom(ExtractInto(test_cases, text, testcase_ids[i]), text, testcase_ids, i + 1)

\* super_simple_extraction(text) when no iteration faults
super_simple_extraction(text) == ExtractFrom(<<>>, text, FindAllIds(text, 1), 1)

\* ---------------------------------------------------- generate_test_cases
\* len(v); -1 stands for TypeError (numbers, booleans and None have no len)
PyLen(v) ==
    IF v.kind = "arr" THEN Len(v.items)
    ELSE IF v.kind = "obj" THEN Len(v.keys)
    ELSE IF v.kind = "str" THEN TextWidth(v.str)
    ELSE -1

\* DirectOutcome asking for one test case more
DirectOutcome_OneMore(result) ==
    IF result.kind = "obj"
    THEN IF KeyIndex(result.keys, W("TestCases")) = 0 THEN "recover"
         ELSE IF PyLen(DictGet(result, W("TestCases"))) = -1 THEN "TypeError"
         ELSE IF PyLen(DictGet(result, W("TestCases"))) > MIN_CASES + 1 THEN "return"
         ELSE "recover"
    ELSE IF result.kind = "arr"
         THEN IF \E k \in 1..Len(result.items) : result.items[k] = JStr(W("TestCases"))
              THEN "TypeError" ELSE "recover"
    ELSE IF result.kind = "str"
         THEN IF \E k \in 1..Len(result.str) : result.str[k] = "TestCases"
              THEN "TypeError" ELSE "recover"
    ELSE "TypeError"

\* DirectOutcome accepting a document of exactly MIN_CASES test cases
DirectOutcome_AtLeast(result) ==
    IF result.kind = "obj"
    THEN IF KeyIndex(result.keys, W("TestCases")) = 0 THEN "recover"
         ELSE IF PyLen(DictGet(result, W("TestCases"))) = -1 THEN "TypeError"
         ELSE IF PyLen(DictGet(result, W("TestCases"))) >= MIN_CASES THEN "return"
         ELSE "recover"
    ELSE IF result.kind = "arr"
         THEN IF \E k \in 1..Len(result.items) : result.items[k] = JStr(W("TestCases"))
              THEN "TypeError" ELSE "recover"
    ELSE IF result.kind = "str"
         THEN IF \E k \in 1..Len(result.str) : result.str[k] = "TestCases"
              THEN "TypeError" ELSE "recover"
    ELSE "TypeError"

\* line 110 on the parsed value: "return" the document, "recover" (fall
\* through to the extraction) or "TypeError".  `in` is key membership on a
\* dict, element membership on a list, substring search on a string and a
\* TypeError on anything else; indexing a list or a string with a string is
\* a TypeError.
DirectOutcome(result) ==
    IF result.kind = "obj"
    THEN IF KeyIndex(result.keys, W("TestCases")) = 0 THEN "recover"
         ELSE IF PyLen(DictGet(result, W("TestCases"))) = -1 THEN "TypeError"
         ELSE IF PyLen(DictGet(result, W("TestCases"))) > MIN_CASES THEN "return"
         ELSE "recover"
    ELSE IF result.kind = "arr"
         THEN IF \E k \in 1..Len(result.items) : result.items[k] = JStr(W("TestCases"))
              THEN "TypeError" ELSE "recover"
    ELSE IF result.kind = "str"
         THEN IF \E k \in 1..Len(result.str) : result.str[k] = "TestCases"
              THEN "TypeError" ELSE "recover"
    ELSE "TypeError"

\* EnoughCases accepting exactly MIN_CASES test cases
EnoughCases_AtLeast(test_cases) == Len(test_cases) >= MIN_CASES

\* line 119
EnoughCases(test_cases) == Len(test_cases) > MIN_CASES

RECURSIVE CountBy(_, _, _, _)
\* lines 121-128 for one of the two breakdowns: counts of tc.get(key, default)
\* over the first n test cases
CountBy(test_cases, key, default, n) ==
    IF n = 0 THEN JObj(<<>>, <<>>)
    ELSE LET counts == CountBy(test_cases, key, default, n - 1)
             value == DictGetOr(test_cases[n], key, JStr(default)).str
         IN  DictSet(counts, value, JNum(DictGetOr(counts, value, JNum(0)).num + 1))

\* BuildResult with the two estimates rounded up instead of down
BuildResult_RoundedUp(test_cases) ==
    JObj(<<W("TestCases"), W("StatisticalSummary")>>,
         <<JArr(test_cases),
           JObj(<<W("TotalTestCases"), W("MappingRows"), W("UniqueAttributes"),
                  W("TestCaseTypeBreakdown"), W("SubtypeBreakdown")>>,
                <<JNum(Len(test_cases)),
                  JNum((Len(test_cases) + 2) \div 3),
                  JNum((Len(test_cases) + 2) \div 3),
                  CountBy(test_cases, W("TestCaseType"), W("FUNCTIONAL"), Len(test_cases)),
                  CountBy(test_cases, W("Subtype"), W("POSITIVE"), Len(test_cases))>>)>>)

\* BuildResult with the total taken from the same estimate as the rows
BuildResult_TotalEstimated(test_cases) ==
    JObj(<<W("TestCases"), W("StatisticalSummary")>>,
         <<JArr(test_cases),
           JObj(<<W("TotalTestCases"), W("MappingRows"), W("UniqueAttributes"),
                  W("TestCaseTypeBreakdown"), W("SubtypeBreakdown")>>,
                <<JNum(Len(test_cases) \div 3),
                  JNum(Len(test_cases) \div 3),
                  JNum(Len(test_cases) \div 3),
                  CountBy(test_cases, W("TestCaseType"), W("FUNCTIONAL"), Len(test_cases)),
                  CountBy(test_cases, W("Subtype"), W("POSITIVE"), Len(test_cases))>>)>>)

\* lines 130-139
BuildResult(test_cases) ==
    JObj(<<W("TestCases"), W("StatisticalSummary")>>,
         <<JArr(test_cases),
           JObj(<<W("TotalTestCases"), W("MappingRows"), W("UniqueAttributes"),
                  W("TestCaseTypeBreakdown"), W("SubtypeBreakdown")>>,
                <<JNum(Len(test_cases)),
                  JNum(Len(test_cases) \div 3),
                  JNum(Len(test_cases) \div 3),
                  CountBy(test_cases, W("TestCaseType"), W("FUNCTIONAL"), Len(test_cases)),
                  CountBy(test_cases, W("Subtype"), W("POSITIVE"), Len(test_cases))>>)>>)

\* what the endpoint answers: the returned document, or HTTPException(500)
\* whose detail is the text of the exception caught at line 147
NoAnswer == [status |-> 0, body |-> JNull, detail |-> "", count |-> 0]

Returned(document) == [status |-> 200, body |-> document, detail |-> "", count |-> 0]

HTTP500(detail, count) == [status |-> 500, body |-> JNull, detail |-> detail, count |-> count]

\* ------------------------------------------------ what the agent may answer
\* free-form answers: every text of at most MaxLen lexemes over these
FreeAlphabet == {LBRACE, RBRACE, FENCE, "json", NL, SP, "7"}

FreeTexts == UNION {[1..n -> FreeAlphabet] : n \in 0..MaxLen}

Quoted(word) == <<QUOTE, word, QUOTE>>

\* "key":"value" and "key": "value"
Field(key, value) == Quoted(key) \o <<COLON>> \o Quoted(value)

FieldSp(key, value) == Quoted(key) \o <<COLON, SP>> \o Quoted(value)

TestCaseIds == <<"TC1", "TC2", "TC3", "TC4", "TC5", "TC6", "TC7", "TC8", "TC9">>

BlockVariants == {"bare", "full", "nodesc", "d1", "d2", "edge", "smoke", "open", "cutoff"}

\* the text of one test case object: with all fields, with some, with values
\* outside the enumerations ("smoke"), with a TestSteps block that is never
\* closed ("open"), or cut off before its PassFailCriteria ("cutoff")
Block(id, variant) ==
    IF variant = "full"
    THEN <<LBRACE, NL>> \o FieldSp("TestCaseID", id) \o <<COMMA, NL>>
         \o FieldSp("TestDescription", "d1") \o <<COMMA, NL>>
         \o FieldSp("ExpectedOutput", "e1") \o <<COMMA, NL>>
         \o Quoted("TestSteps") \o <<COLON, SP, LBRACK>> \o Quoted("s1") \o <<COMMA, SP>>
         \o Quoted("s2") \o <<RBRACK, COMMA, NL>>
         \o FieldSp("PassFailCriteria", "p1") \o <<COMMA, NL>>
         \o FieldSp("TestCaseType", "REGRESSION") \o <<COMMA, NL>>
         \o FieldSp("Subtype", "NEGATIVE") \o <<NL, RBRACE>>
    ELSE IF variant = "nodesc"
    THEN <<LBRACE>> \o Field("TestCaseID", id) \o <<COMMA>>
         \o Quoted("TestDescription") \o <<COLON, QUOTE, QUOTE, RBRACE>>
    ELSE IF variant = "d1"
    THEN <<LBRACE>> \o Field("TestCaseID", id) \o <<COMMA>>
         \o Field("TestDescription", "d1") \o <<RBRACE>>
    ELSE IF variant = "d2"
    THEN <<LBRACE>> \o Field("TestCaseID", id) \o <<COMMA>>
         \o Field("TestDescription", "d2") \o <<RBRACE>>
    ELSE IF variant = "edge"
    THEN <<LBRACE>> \o Field("TestCaseID", id) \o <<COMMA>>
         \o Field("TestCaseType", "EDGE") \o <<COMMA>>
         \o Field("Subtype", "NEGATIVE") \o <<RBRACE>>
    ELSE IF variant = "smoke"
    THEN <<LBRACE>> \o Field("TestCaseID", id) \o <<COMMA>>
         \o Field("TestCaseType", "SMOKE") \o <<COMMA>>
         \o Field("Subtype", "MAYBE") \o <<RBRACE>>
    ELSE IF variant = "open"
    THEN <<LBRACE>> \o Field("TestCaseID", id) \o <<COMMA>>
         \o Quoted("TestSteps") \o <<COLON, LBRACK>> \o Quoted("s1") \o <<COMMA>>
         \o Quoted("s2") \o <<COMMA>>
         \o Field("PassFailCriteria", "p1") \o <<RBRACE>>
    ELSE IF variant = "cutoff"
    THEN <<LBRACE, NL>> \o FieldSp("TestCaseID", id) \o <<COMMA, NL>>
         \o FieldSp("TestDescription", "d1") \o <<COMMA, NL>>
         \o FieldSp("ExpectedOutput", "e1") \o <<COMMA, NL>>
         \o Quoted("TestSteps") \o <<COLON, SP, LBRACK>> \o Quoted("s1") \o <<COMMA, SP>>
         \o Quoted("s2") \o <<RBRACK, COMMA, NL>>
    ELSE <<LBRACE>> \o Field("TestCaseID", id) \o <<RBRACE>>

\* the blocks that stand out in a document: <<identifier number, variant>>
Specials ==
    {<<>>, <<<<1, "full">>>>, <<<<1, "nodesc">>>>, <<<<1, "edge">>>>,
     <<<<1, "d1">>, <<1, "d2">>>>, <<<<1, "full">>, <<1, "d2">>>>,
     <<<<1, "smoke">>>>,
     <<<<1, "open">>, <<9, "full">>>>, <<<<9, "full">>, <<1, "open">>>>,
     <<<<8, "full">>, <<9, "full">>, <<1, "cutoff">>>>}

\* n blocks: the special ones first or last, plain blocks with fresh
\* identifiers for the rest
Plan(n, special, front) ==
    LET fill == [k \in 1..(n - Len(special)) |-> <<k + 1, "bare">>]
    IN  IF front THEN special \o fill ELSE fill \o special

RECURSIVE Blocks(_, _)
\* the blocks of a plan from the k-th on, separated by commas
Blocks(plan, k) ==
    IF k > Len(plan) THEN <<>>
    ELSE Block(TestCaseIds[plan[k][1]], plan[k][2])
         \o (IF k < Len(plan) THEN <<COMMA>> ELSE <<>>)
         \o Blocks(plan, k + 1)

\* "StatisticalSummary":{...} stating `total` test cases
Summary(total) ==
    Quoted("StatisticalSummary") \o <<COLON, LBRACE>>
    \o Quoted("TotalTestCases") \o <<COLON, Digits[total + 1], COMMA>>
    \o Quoted("TestCaseTypeBreakdown") \o <<COLON, LBRACE>>
    \o Quoted("FUNCTIONAL") \o <<COLON, Digits[total + 1], RBRACE, COMMA>>
    \o Quoted("SubtypeBreakdown") \o <<COLON, LBRACE>>
    \o Quoted("POSITIVE") \o <<COLON, Digits[total + 1], RBRACE, RBRACE>>

SummaryKinds == {"none", "right", "wrong"}

Endings == {"closed", "cut", "absent", "scalar", "renamed"}

\* the document: complete, cut off after the last block, without a
\* TestCases field, with a number where the array should be, or with the
\* array under another name
Document(plan, summary, ending) ==
    LET tail == IF summary = "none" THEN <<>>
                ELSE <<COMMA>> \o Summary(IF summary = "right" THEN Len(plan) ELSE 0)
    IN  IF ending = "closed"
        THEN <<LBRACE>> \o Quoted("TestCases") \o <<COLON, LBRACK>> \o Blocks(plan, 1)
             \o <<RBRACK>> \o tail \o <<RBRACE>>
        ELSE IF ending = "cut"
        THEN <<LBRACE>> \o Quoted("TestCases") \o <<COLON, LBRACK>> \o Blocks(plan, 1)
        ELSE IF ending = "absent"
        THEN <<LBRACE>> \o Summary(Len(plan)) \o <<RBRACE>>
        ELSE IF ending = "renamed"
        THEN <<LBRACE>> \o Quoted("Cases") \o <<COLON, LBRACK>> \o Blocks(plan, 1)
             \o <<RBRACK>> \o tail \o <<RBRACE>>
        ELSE <<LBRACE>> \o Quoted("TestCases") \o <<COLON, "7">> \o tail \o <<RBRACE>>

Wrappers == {"plain", "fenced", "prose"}

Wrap(document, wrapper) ==
    IF wrapper = "fenced" THEN <<FENCE, "json", NL>> \o document \o <<NL, FENCE>>
    ELSE IF wrapper = "prose" THEN <<"Here", SP>> \o document
    ELSE document

\* the documents of n blocks
DocumentsOf(n) ==
    {Wrap(Document(Plan(n, special, front), summary, ending), wrapper) :
        special \in {s \in Specials : Len(s) <= n},
        front \in BOOLEAN,
        summary \in SummaryKinds,
        ending \in IF n = 0 THEN Endings \ {"renamed"} ELSE {"closed", "cut"},
        wrapper \in Wrappers}

\* the documents that hold their n plain blocks under another name
Renamed == {Document(Plan(n, <<>>, TRUE), "none", "renamed") : n \in 0..MaxRecords}

Documents == Renamed \cup UNION {DocumentsOf(n) : n \in 0..MaxRecords}

\* every value client.generate_test_cases may return
Responses == {None} \cup {PyStr(t) : t \in FreeTexts \cup Documents}

\* ---------------------------------------------------------- the environment
\* the environment variables get_project_config reads
EnvNames ==
    {"USE_CROSS_PROJECT_DEPLOYMENT", "GOOGLE_CLOUD_PROJECT", "STAGING_BUCKET",
     "STORAGE_PROJECT", "COMPUTE_PROJECT", "CROSS_PROJECT_STAGING_BUCKET"}

\* no variable is set
NoEnv == [name \in EnvNames |-> None]

\* no configuration yet
NoConfig ==
    [error |-> "", use_impersonation |-> FALSE, storage_project |-> None,
     compute_project |-> None, staging_bucket |-> None]

\* ------------------------------------------------------------ the request
\* pc .. log are the locals of one request and its log; calls holds the
\* frames (the locals) of requests that run side by side; response_events
\* and final_response are the locals of a query of the agent; env .. invoked
\* are the environment of main.py, the locals of its deploy mode and the
\* functions it has called
VARIABLES pc, raw_result, cleaned, result, testcase_ids, i, test_cases, failed,
          answer, log, calls, response_events, final_response,
          env, config, app, remote_agent, invoked

vars == <<pc, raw_result, cleaned, result, testcase_ids, i, test_cases, failed,
          answer, log, calls, response_events, final_response,
          env, config, app, remote_agent, invoked>>

\* what a request of the API leaves alone
deployment == <<response_events, final_response, env, config, app, remote_agent, invoked>>

\* what a query of the agent and main.py leave alone
parsing == <<cleaned, result, testcase_ids, i, test_cases, failed, answer, calls>>

\* nothing was queried or deployed
NoDeployment ==
    /\ response_events = <<>>
    /\ final_response = None
    /\ env = NoEnv
    /\ config = NoConfig
    /\ app = "None"
    /\ remote_agent = "None"
    /\ invoked = <<>>

\* no request was parsed
NoParsing ==
    /\ cleaned = None
    /\ result = ParseFail
    /\ testcase_ids = <<>>
    /\ i = 0
    /\ test_cases = <<>>
    /\ failed = <<>>
    /\ answer = NoAnswer
    /\ calls = <<>>

Init ==
    /\ pc = "call"
    /\ raw_result = None
    /\ cleaned = None
    /\ result = ParseFail
    /\ testcase_ids = <<>>
    /\ i = 0
    /\ test_cases = <<>>
    /\ failed = <<>>
    /\ answer = NoAnswer
    /\ log = <<>>
    /\ calls = <<>>
    /\ NoDeployment

\* lines 92-96: the agent's answer arrives
AgentReplies ==
    /\ pc = "call"
    /\ \E r \in Responses : raw_result' = r
    /\ pc' = "received"
    /\ UNCHANGED <<deployment, calls, cleaned, result, testcase_ids, i, test_cases, failed, answer, log>>

\* NoResponse answering with an empty document instead of raising
NoResponse_EmptySuccess ==
    /\ pc = "received"
    /\ ~Truthy(raw_result)
    /\ answer' = Returned(BuildResult(<<>>))
    /\ log' = Append(log, "SUCCESS")
    /\ pc' = "done"
    /\ UNCHANGED <<deployment, calls, raw_result, cleaned, result, testcase_ids, i, test_cases, failed>>

\* lines 98-99, 147-149: no answer, or an empty one
NoResponse ==
    /\ pc = "received"
    /\ ~Truthy(raw_result)
    /\ answer' = HTTP500("No response from Vertex AI", 0)
    /\ log' = Append(log, "Error")
    /\ pc' = "done"
    /\ UNCHANGED <<deployment, calls, raw_result, cleaned, result, testcase_ids, i, test_cases, failed>>

\* lines 101-105
Clean ==
    /\ pc = "received"
    /\ Truthy(raw_result)
    /\ cleaned' = clean_json_response(raw_result)
    /\ log' = log \o <<"Raw result", "Cleaned">>
    /\ pc' = "cleaned"
    /\ UNCHANGED <<deployment, calls, raw_result, result, testcase_ids, i, test_cases, failed, answer>>

\* lines 109-112: the document parses and has enough test cases
DirectJSONWorked ==
    /\ pc = "cleaned"
    /\ result' = json_loads(cleaned.s)
    /\ result'.ok
    /\ DirectOutcome(result'.val) = "return"
    /\ answer' = Returned(result'.val)
    /\ log' = Append(log, "Direct JSON worked")
    /\ pc' = "done"
    /\ UNCHANGED <<deployment, calls, raw_result, cleaned, testcase_ids, i, test_cases, failed>>

\* lines 109-110: the document parses but has too few test cases, or none
DirectJSONTooFew ==
    /\ pc = "cleaned"
    /\ result' = json_loads(cleaned.s)
    /\ result'.ok
    /\ DirectOutcome(result'.val) = "recover"
    /\ pc' = "recover"
    /\ UNCHANGED <<deployment, calls, raw_result, cleaned, testcase_ids, i, test_cases, failed, answer, log>>

\* lines 109-110, 147-149: the parsed value is no document; the TypeError
\* is not a JSONDecodeError and reaches the outer handler
DirectJSONTypeError ==
    /\ pc = "cleaned"
    /\ result' = json_loads(cleaned.s)
    /\ result'.ok
    /\ DirectOutcome(result'.val) = "TypeError"
    /\ answer' = HTTP500("TypeError", 0)
    /\ log' = Append(log, "Error")
    /\ pc' = "done"
    /\ UNCHANGED <<deployment, calls, raw_result, cleaned, testcase_ids, i, test_cases, failed>>

\* lines 109, 113-114: json.JSONDecodeError
DirectJSONFailed ==
    /\ pc = "cleaned"
    /\ result' = json_loads(cleaned.s)
    /\ ~result'.ok
    /\ log' = Append(log, "Direct JSON failed")
    /\ pc' = "recover"
    /\ UNCHANGED <<deployment, calls, raw_result, cleaned, testcase_ids, i, test_cases, failed, answer>>

\* lines 117, 21-25: super_simple_extraction(cleaned) starts
FindIds ==
    /\ pc = "recover"
    /\ test_cases' = <<>>
    /\ testcase_ids' = FindAllIds(cleaned.s, 1)
    /\ i' = 1
    /\ log' = Append(log, "Found TestCaseIDs")
    /\ pc' = "loop"
    /\ UNCHANGED <<deployment, calls, raw_result, cleaned, result, failed, answer>>

\* lines 28-72: one iteration
ExtractOne ==
    /\ pc = "loop"
    /\ i <= Len(testcase_ids)
    /\ test_cases' = ExtractInto(test_cases, cleaned.s, testcase_ids[i])
    /\ i' = i + 1
    /\ log' = IF test_cases' = test_cases THEN log ELSE Append(log, "Extracted test case")
    /\ UNCHANGED <<deployment, calls, pc, raw_result, cleaned, result, testcase_ids, failed, answer>>

\* ExtractFault without the handler of line 74: the exception leaves the
\* extraction and reaches the handler of line 147
ExtractFault_Aborts ==
    /\ pc = "loop"
    /\ i <= Len(testcase_ids)
    /\ Len(failed) < MaxFaults
    /\ failed' = Append(failed, i)
    /\ answer' = HTTP500("Exception", 0)
    /\ log' = Append(log, "Error")
    /\ pc' = "done"
    /\ UNCHANGED <<deployment, calls, raw_result, cleaned, result, testcase_ids, i, test_cases>>

\* lines 74-76: an exception inside the iteration (the regular-expression
\* engine or the logger raising) is logged and the loop goes on
ExtractFault ==
    /\ pc = "loop"
    /\ i <= Len(testcase_ids)
    /\ Len(failed) < MaxFaults
    /\ failed' = Append(failed, i)
    /\ i' = i + 1
    /\ log' = Append(log, "Failed to extract test case")
    /\ UNCHANGED <<deployment, calls, pc, raw_result, cleaned, result, testcase_ids, test_cases, answer>>

\* lines 78-79, 119-142: enough test cases were extracted
ReturnExtracted ==
    /\ pc = "loop"
    /\ i > Len(testcase_ids)
    /\ EnoughCases(test_cases)
    /\ answer' = Returned(BuildResult(test_cases))
    /\ log' = log \o <<"Final extraction result", "SUCCESS">>
    /\ pc' = "done"
    /\ UNCHANGED <<deployment, calls, raw_result, cleaned, result, testcase_ids, i, test_cases, failed>>

\* lines 78-79, 143-149: too few test cases were extracted
NotEnough ==
    /\ pc = "loop"
    /\ i > Len(testcase_ids)
    /\ ~EnoughCases(test_cases)
    /\ answer' = HTTP500("Only extracted test cases from response", Len(test_cases))
    /\ log' = log \o <<"Final extraction result", "Only extracted", "Error">>
    /\ pc' = "done"
    /\ UNCHANGED <<deployment, calls, raw_result, cleaned, result, testcase_ids, i, test_cases, failed>>

Next ==
    \/ AgentReplies
    \/ NoResponse
    \/ Clean
    \/ DirectJSONWorked
    \/ DirectJSONTooFew
    \/ DirectJSONTypeError
    \/ DirectJSONFailed
    \/ FindIds
    \/ ExtractOne
    \/ ExtractFault
    \/ ReturnExtracted
    \/ NotEnough

Spec == Init /\ [][Next]_vars

\* ------------------------------------------------------------- properties
InLog(line) == \E k \in 1..Len(log) : log[k] = line

\* super_simple_extraction was called for this request
Extracting == InLog("Found TestCaseIDs")

\* the normalizer has run on a non-empty answer
Normalized == pc \notin {"call", "received"} /\ ~cleaned.none

\* super_simple_extraction has gone through all identifiers: test_cases is
\* the list it returns
Extracted == Extracting /\ i > Len(testcase_ids)

Field7 ==
    <<W("TestCaseID"), W("TestDescription"), W("ExpectedOutput"), W("TestSteps"),
      W("PassFailCriteria"), W("TestCaseType"), W("Subtype")>>

\* strictly valid JSON: an object with a TestCases array of more than
\* MIN_CASES elements and a StatisticalSummary
StrictDocument(text) ==
    LET r == json_loads(text)
    IN  /\ r.ok
        /\ r.val.kind = "obj"
        /\ DictGetOr(r.val, W("TestCases"), JNull).kind = "arr"
        /\ Len(DictGetOr(r.val, W("TestCases"), JNull).items) > MIN_CASES
        /\ KeyIndex(r.val.keys, W("StatisticalSummary")) # 0

\* C1: when the normalized text is a strict document, the request ends by
\* returning exactly the parsed document and the extraction is never called
C1_FastPathEquivalence ==
    (pc = "done" /\ Normalized /\ StrictDocument(cleaned.s))
        => /\ answer = Returned(json_loads(cleaned.s).val)
           /\ ~Extracting
           /\ testcase_ids = <<>> /\ test_cases = <<>> /\ i = 0

C1_Witness ==
    /\ pc = "done"
    /\ Normalized
    /\ StrictDocument(cleaned.s)
    /\ answer.status = 200
    /\ Len(DictGet(answer.body, W("TestCases")).items) = MIN_CASES + 1
    /\ raw_result # cleaned

\* a field of a test case is there and not empty
FieldFilled(tc, key) ==
    LET v == DictGetOr(tc, key, JNull)
    IN  IF v.kind = "str" THEN v.str # <<>>
        ELSE IF v.kind = "arr" THEN v.items # <<>>
        ELSE FALSE

\* C2: every extracted test case has all seven fields present and non-empty
C2_Completeness ==
    Extracted => \A k \in 1..Len(test_cases) : \A f \in 1..7 : FieldFilled(test_cases[k], Field7[f])

RECURSIVE SumValues(_, _)
\* sum of the first n values of a breakdown
SumValues(d, n) == IF n = 0 THEN 0 ELSE d.items[n].num + SumValues(d, n - 1)

\* the summary of a document agrees with its test cases
Consistent(document) ==
    LET cases == DictGetOr(document, W("TestCases"), JNull)
        summary == DictGetOr(document, W("StatisticalSummary"), JNull)
        total == DictGetOr(summary, W("TotalTestCases"), JNull)
        types == DictGetOr(summary, W("TestCaseTypeBreakdown"), JNull)
        subtypes == DictGetOr(summary, W("SubtypeBreakdown"), JNull)
    IN  /\ total.kind = "num" /\ total.num = PyLen(cases)
        /\ types.kind = "obj" /\ SumValues(types, Len(types.items)) = total.num
        /\ subtypes.kind = "obj" /\ SumValues(subtypes, Len(subtypes.items)) = total.num

\* C3 as stated: every returned document, fast path or recovery path, has a
\* summary whose total and breakdown sums equal the number of test cases
C3_CountConsistency ==
    (pc = "done" /\ answer.status = 200) => Consistent(answer.body)

\* C3 amended: every document returned by the recovery path holds the
\* extracted test cases and a summary whose total and breakdown sums equal
\* their number
C3_RecoveryCountConsistency ==
    (pc = "done" /\ answer.status = 200 /\ Extracting)
        => /\ Consistent(answer.body)
           /\ DictGet(answer.body, W("TestCases")) = JArr(test_cases)

C3_Witness ==
    /\ pc = "done"
    /\ answer.status = 200
    /\ Extracting
    /\ Len(DictGet(DictGet(answer.body, W("StatisticalSummary")),
                   W("TestCaseTypeBreakdown")).keys) > 1
    /\ Len(DictGet(DictGet(answer.body, W("StatisticalSummary")),
                   W("SubtypeBreakdown")).keys) > 1

\* where the identifier occurs in the text as a TestCaseID value
IdOccurrences(text, testcase_id) ==
    {p \in 1..Len(text) :
        LET m == MatchFieldAt(text, p, "TestCaseID")
        IN  m.found /\ m.group = testcase_id}

\* the description found from the occurrence at p on
DescriptionAt(text, p) == SearchField(Chunk(text, p), "TestDescription")

\* C4: a test case whose identifier occurs twice with different descriptions
\* carries the description of the later occurrence
C4_LaterOccurrenceWins ==
    Extracted =>
        \A k \in 1..Len(test_cases) :
            LET occ == IdOccurrences(cleaned.s, DictGet(test_cases[k], W("TestCaseID")).str)
                first == CHOOSE p \in occ : \A q \in occ : p <= q
                last == CHOOSE p \in occ : \A q \in occ : q <= p
            IN  (/\ Cardinality(occ) > 1
                 /\ DescriptionAt(cleaned.s, last).found
                 /\ DescriptionAt(cleaned.s, first) # DescriptionAt(cleaned.s, last))
                    => DictGet(test_cases[k], W("TestDescription"))
                           = JStr(DescriptionAt(cleaned.s, last).group)

\* C5: normalizing a normalized text changes nothing
C5_Idempotent ==
    Normalized => clean_json_response(cleaned) = cleaned

\* C6: with t the answer after fence removal and trimming, the normalized
\* text is t from its first { to its last } when that } lies after that {,
\* and t itself in every other case
C6_BraceIsolation ==
    (Normalized /\ Truthy(raw_result)) =>
        LET t == Unfenced(raw_result.s)
            opens == {p \in 1..Len(t) : t[p] = LBRACE}
            closes == {p \in 1..Len(t) : t[p] = RBRACE}
        IN  IF \E a \in opens, b \in closes :
                   /\ \A p \in opens : a <= p
                   /\ \A p \in closes : p <= b
                   /\ a < b
            THEN \E a \in opens, b \in closes :
                   /\ \A p \in opens : a <= p
                   /\ \A p \in closes : p <= b
                   /\ Len(cleaned.s) = b - a + 1
                   /\ \A p \in a..b : cleaned.s[p - a + 1] = t[p]
            ELSE cleaned.s = t

C6_Witness ==
    /\ Normalized
    /\ Len(cleaned.s) >= 2
    /\ Len(cleaned.s) < Len(Unfenced(raw_result.s))
    /\ Head(cleaned.s) = LBRACE
    /\ cleaned.s[Len(cleaned.s)] = RBRACE

RECURSIVE Kept(_, _, _)
\* the identifiers from the k-th on whose iteration did not fault
Kept(ids, faulted, k) ==
    IF k > Len(ids) THEN <<>>
    ELSE (IF \E f \in 1..Len(faulted) : faulted[f] = k THEN <<>> ELSE <<ids[k]>>)
         \o Kept(ids, faulted, k + 1)

\* C7: the extraction always runs to its end and returns its list; an
\* iteration that faults drops that identifier only, every other identifier
\* found in the text has its test case in the list, in order
C7_FaultIsolation ==
    /\ pc = "loop" => Len(test_cases) + Len(failed) = i - 1
    /\ (pc = "done" /\ Extracting)
        => /\ InLog("Final extraction result")
           /\ i = Len(testcase_ids) + 1
           /\ [k \in 1..Len(test_cases) |-> DictGet(test_cases[k], W("TestCaseID")).str]
                  = Kept(testcase_ids, failed, 1)

C7_Witness ==
    /\ pc = "done"
    /\ Extracting
    /\ Len(failed) = 1
    /\ failed[1] = 1
    /\ Len(testcase_ids) > 2
    /\ Len(test_cases) = Len(testcase_ids) - 1

\* C8: for the empty answer the normalizer returns the empty string, the
\* extraction finds nothing in it and the request ends in an error
C8_EmptyInput ==
    (pc = "done" /\ raw_result = PyStr(<<>>))
        => /\ clean_json_response(raw_result) = PyStr(<<>>)
           /\ super_simple_extraction(raw_result.s) = <<>>
           /\ answer.status = 500
           /\ answer.body = JNull

C8_Witness ==
    /\ pc = "done"
    /\ raw_result = PyStr(<<>>)
    /\ answer.status = 500

\* C9: a request ends with a document of more than MIN_CASES test cases or
\* with an error 500; when the extraction yields MIN_CASES or fewer the
\* error states how many
C9_NoEmptySuccess ==
    pc = "done"
        => /\ \/ answer.status = 500
              \/ /\ answer.status = 200
                 /\ PyLen(DictGetOr(answer.body, W("TestCases"), JNull)) > MIN_CASES
           /\ (Extracting /\ Len(test_cases) <= MIN_CASES)
                  => answer = HTTP500("Only extracted test cases from response", Len(test_cases))

C9_Witness ==
    /\ pc = "done"
    /\ Extracting
    /\ Len(test_cases) = MIN_CASES
    /\ answer.status = 500
    /\ answer.count = MIN_CASES

\* the text parses to a document whose TestCases array is missing or has
\* MIN_CASES elements or fewer
UnderDelivered(text) ==
    LET r == json_loads(text)
    IN  /\ r.ok
        /\ r.val.kind = "obj"
        /\ \/ KeyIndex(r.val.keys, W("TestCases")) = 0
           \/ /\ DictGet(r.val, W("TestCases")).kind = "arr"
              /\ Len(DictGet(r.val, W("TestCases")).items) <= MIN_CASES

\* lines 117-145 on a text, when no iteration faults
RecoveryAnswer(text) ==
    IF EnoughCases(super_simple_extraction(text))
    THEN Returned(BuildResult(super_simple_extraction(text)))
    ELSE HTTP500("Only extracted test cases from response", Len(super_simple_extraction(text)))

C11_OutputShape ==
    (pc = "done" /\ answer.status = 200)
        => /\ answer.body.kind = "obj"
           /\ KeyIndex(answer.body.keys, W("TestCases")) # 0
           /\ KeyIndex(answer.body.keys, W("StatisticalSummary")) # 0

TestCaseTypes == {W("FUNCTIONAL"), W("REGRESSION"), W("EDGE")}

Subtypes == {W("POSITIVE"), W("NEGATIVE")}

\* C12: every extracted test case has a TestCaseType among FUNCTIONAL,
\* REGRESSION and EDGE and a Subtype among POSITIVE and NEGATIVE
C12_EnumerationDomain ==
    Extracted =>
        \A k \in 1..Len(test_cases) :
            /\ DictGet(test_cases[k], W("TestCaseType")).str \in TestCaseTypes
            /\ DictGet(test_cases[k], W("Subtype")).str \in Subtypes

\* C13: the summary built from the extracted test cases has a count for each
\* of the three types and each of the two subtypes, 0 where none has it
C13_BreakdownKeys ==
    (pc = "done" /\ answer.status = 200 /\ Extracting) =>
        LET summary == DictGet(answer.body, W("StatisticalSummary"))
            types == DictGet(summary, W("TestCaseTypeBreakdown"))
            subtypes == DictGet(summary, W("SubtypeBreakdown"))
        IN  /\ \A t \in TestCaseTypes : KeyIndex(types.keys, t) # 0
            /\ \A s \in Subtypes : KeyIndex(subtypes.keys, s) # 0

\* the identifiers that occur in the text as a TestCaseID value
DistinctIds(text) ==
    {MatchFieldAt(text, p, "TestCaseID").group :
        p \in {q \in 1..Len(text) :
                  /\ MatchFieldAt(text, q, "TestCaseID").found
                  /\ MatchFieldAt(text, q, "TestCaseID").group # <<>>}}

\* C14: every extracted test case has an identifier of the text, and there
\* are no more test cases than distinct identifiers in the text
C14_NoFabricatedRecord ==
    Extracted =>
        /\ \A k \in 1..Len(test_cases) :
               DictGet(test_cases[k], W("TestCaseID")).str \in DistinctIds(cleaned.s)
        /\ Len(test_cases) <= Cardinality(DistinctIds(cleaned.s))

\* C15: no two extracted test cases have the same TestCaseID
C15_IdentifierUniqueness ==
    Extracted =>
        \A j, k \in 1..Len(test_cases) :
            j # k => DictGet(test_cases[j], W("TestCaseID")) # DictGet(test_cases[k], W("TestCaseID"))

\* ---------------------------------------------- the normalizer on its own
\* texts of fence markers in both letter cases, whitespace and a payload
FenceAlphabet == {FENCE, "json", "JSON", NL, SP, "7"}

FenceTexts == UNION {[1..n -> FenceAlphabet] : n \in 0..MaxLen}

\* every argument clean_json_response is applied to
NormalizerInputs == {None} \cup {PyStr(t) : t \in FreeTexts \cup FenceTexts}

NormInit ==
    /\ pc = "input"
    /\ raw_result \in NormalizerInputs
    /\ cleaned = None
    /\ result = ParseFail
    /\ testcase_ids = <<>>
    /\ i = 0
    /\ test_cases = <<>>
    /\ failed = <<>>
    /\ answer = NoAnswer
    /\ log = <<>>
    /\ calls = <<>>
    /\ NoDeployment

\* one call of clean_json_response, on None, on "" or on a text
Normalize ==
    /\ pc = "input"
    /\ cleaned' = clean_json_response(raw_result)
    /\ pc' = "output"
    /\ UNCHANGED <<deployment, calls, raw_result, result, testcase_ids, i, test_cases, failed, answer, log>>

NormNext == Normalize

NormalizerSpec == NormInit /\ [][NormNext]_vars

\* C16: clean_json_response returns None for None and "" for "", and a
\* string for every string
C16_EmptyOrNoneUnchanged ==
    pc = "output"
        => /\ ~Truthy(raw_result) => cleaned = raw_result
           /\ ~raw_result.none => ~cleaned.none

C16_Witness ==
    /\ pc = "output"
    /\ raw_result = None
    /\ cleaned = None

\* first and last index of the line of the text that holds index p
LineStart(text, p) ==
    CHOOSE a \in 1..p : IsLineStart(text, a) /\ \A k \in a..(p - 1) : text[k] # NL

LineEnd(text, p) ==
    CHOOSE b \in (p - 1)..Len(text) :
        /\ b = Len(text) \/ text[b + 1] = NL
        /\ \A k \in p..b : text[k] # NL

\* the fence at p stands on a line that is only an opening marker tagged
\* json in either letter case, possibly after whitespace, or only a bare fence
OnMarkerLine(text, p) ==
    LET a == LineStart(text, p)
        b == IF text[p] = NL THEN p - 1 ELSE LineEnd(text, p)
        line == SubSeq(text, a, b)
    IN  \/ Strip(line) \in {<<FENCE, "json">>, <<FENCE, "JSON">>}
        \/ RStrip(line) = <<FENCE>>

\* C17: when every fence of the text is on a marker line and the text has
\* no brace pair, no fence is left in what clean_json_response returns
C17_FenceRemovalTolerant ==
    (/\ pc = "output"
     /\ Truthy(raw_result)
     /\ Find(raw_result.s, LBRACE) = 0
     /\ \A p \in 1..Len(raw_result.s) :
            raw_result.s[p] = FENCE => OnMarkerLine(raw_result.s, p))
        => \A p \in 1..Len(cleaned.s) : cleaned.s[p] # FENCE

\* the positions at which a TestCaseID field with a non-empty value starts
IdPositions(text) ==
    {p \in 1..Len(text) :
        /\ MatchFieldAt(text, p, "TestCaseID").found
        /\ MatchFieldAt(text, p, "TestCaseID").group # <<>>}

\* the span a..b of the text holds all six fields that follow an identifier
CompleteBlock(text, a, b) ==
    LET span == SubSeq(text, a, b)
    IN  /\ \A name \in {"TestDescription", "ExpectedOutput", "PassFailCriteria",
                        "TestCaseType", "Subtype"} : SearchField(span, name).found
        /\ SearchSteps(span).found

\* the text holds three different identifiers, the first two with a complete
\* block each, and ends inside the third block before any PassFailCriteria
TruncatedInThird(text) ==
    LET at == IdPositions(text)
    IN  /\ Cardinality(at) = 3
        /\ Cardinality(DistinctIds(text)) = 3
        /\ \E p1, p2, p3 \in at :
               /\ p1 < p2 /\ p2 < p3
               /\ CompleteBlock(text, p1, p2 - 1)
               /\ CompleteBlock(text, p2, p3 - 1)
               /\ ~SearchField(SubSeq(text, p3, Len(text)), "PassFailCriteria").found
               /\ \A k \in p3..Len(text) : text[k] # RBRACE

\* C18: for an answer truncated in its third block, strict parsing of the
\* normalized text fails and the extraction returns 3 test cases, the third
\* with the default PassFailCriteria
C18_TruncatedScenario ==
    (Extracted /\ pc = "done" /\ failed = <<>> /\ TruncatedInThird(raw_result.s))
        => /\ ~json_loads(cleaned.s).ok
           /\ Len(test_cases) = 3
           /\ DictGet(test_cases[3], W("PassFailCriteria"))
                  = JStr(W("Test passes when validation criteria are met"))

\* the span a..b of the text opens a TestSteps block and holds no closing
\* bracket after the opening one
UnterminatedSteps(text, a, b) ==
    \E p \in a..b :
        /\ StepsStart(text, p) # 0
        /\ StepsStart(text, p) <= b + 1
        /\ \A k \in StepsStart(text, p)..b : text[k] # RBRACK

\* C19: when the text holds two records with different identifiers, one
\* complete and one whose TestSteps block is never closed, in either order,
\* the extraction returns both and the latter has the three default steps
C19_UnterminatedSteps ==
    (Extracted /\ failed = <<>> /\ Cardinality(IdPositions(cleaned.s)) = 2
               /\ Cardinality(DistinctIds(cleaned.s)) = 2) =>
        LET text == cleaned.s
            p1 == Min(IdPositions(text))
            p2 == Min(IdPositions(text) \ {p1})
            open1 == UnterminatedSteps(text, p1, p2 - 1) /\ CompleteBlock(text, p2, Len(text))
            open2 == CompleteBlock(text, p1, p2 - 1) /\ UnterminatedSteps(text, p2, Len(text))
        IN  (open1 \/ open2)
                => /\ Len(test_cases) = 2
                   /\ open1 => DictGet(test_cases[1], W("TestSteps")) = JArr(DefaultSteps)
                   /\ open2 => DictGet(test_cases[2], W("TestSteps")) = JArr(DefaultSteps)

\* --------------------------------------------- requests running side by side
NumCalls == 2        \* requests in flight at the same time

Calls == 1..NumCalls

\* the locals of one invocation of generate_test_cases and of the
\* super_simple_extraction it calls; `overlapped` records that the call took
\* a step while another call was between its start and its end
Frame ==
    [pc |-> "call", raw_result |-> None, cleaned |-> None, testcase_ids |-> <<>>,
     i |-> 0, test_cases |-> <<>>, answer |-> NoAnswer, overlapped |-> FALSE]

\* answers of the agent: a cut document that the extraction accepts, one
\* with a repeated identifier, a fenced complete document, and a number
ConcurrentInputs ==
    {PyStr(Document(Plan(MIN_CASES + 1, <<>>, TRUE), "none", "cut")),
     PyStr(Document(Plan(2, <<<<1, "d1">>, <<1, "d2">>>>, TRUE), "none", "cut")),
     PyStr(Wrap(Document(Plan(MIN_CASES + 1, <<>>, TRUE), "right", "closed"), "fenced")),
     PyStr(<<"7">>)}

request == <<pc, raw_result, cleaned, result, testcase_ids, i, test_cases, failed,
             answer, log>>

ConcInit ==
    /\ pc = "call"
    /\ raw_result = None
    /\ cleaned = None
    /\ result = ParseFail
    /\ testcase_ids = <<>>
    /\ i = 0
    /\ test_cases = <<>>
    /\ failed = <<>>
    /\ answer = NoAnswer
    /\ log = <<>>
    /\ calls = [c \in Calls |-> Frame]
    /\ NoDeployment

\* some other call is between its start and its end
Busy(c) == \E d \in Calls \ {c} : calls[d].pc \notin {"call", "done"}

\* lines 92-96 of call c
CallReplies(c) ==
    /\ calls[c].pc = "call"
    /\ \E r \in ConcurrentInputs :
           calls' = [calls EXCEPT ![c].raw_result = r, ![c].pc = "received",
                                  ![c].overlapped = @ \/ Busy(c)]
    /\ UNCHANGED <<request, deployment>>

\* lines 101-105 of call c
CallClean(c) ==
    /\ calls[c].pc = "received"
    /\ calls' = [calls EXCEPT ![c].cleaned = clean_json_response(calls[c].raw_result),
                              ![c].pc = "cleaned",
                              ![c].overlapped = @ \/ Busy(c)]
    /\ UNCHANGED <<request, deployment>>

\* lines 108-114 of call c
CallDirectJSON(c) ==
    /\ calls[c].pc = "cleaned"
    /\ LET parsed == json_loads(calls[c].cleaned.s)
           outcome == IF parsed.ok THEN DirectOutcome(parsed.val) ELSE "recover"
       IN  calls' = [calls EXCEPT
                        ![c].answer = IF outcome = "return" THEN Returned(parsed.val)
                                      ELSE IF outcome = "TypeError" THEN HTTP500("TypeError", 0)
                                      ELSE @,
                        ![c].pc = IF outcome = "recover" THEN "recover" ELSE "done",
                        ![c].overlapped = @ \/ Busy(c)]
    /\ UNCHANGED <<request, deployment>>

\* lines 117, 21-25 of call c: a new list for this call
CallFindIds(c) ==
    /\ calls[c].pc = "recover"
    /\ calls' = [calls EXCEPT ![c].test_cases = <<>>,
                              ![c].testcase_ids = FindAllIds(calls[c].cleaned.s, 1),
                              ![c].i = 1,
                              ![c].pc = "loop",
                              ![c].overlapped = @ \/ Busy(c)]
    /\ UNCHANGED <<request, deployment>>

\* CallExtractOne appending to one list that all calls share
CallExtractOne_SharedList(c) ==
    /\ calls[c].pc = "loop"
    /\ calls[c].i <= Len(calls[c].testcase_ids)
    /\ calls' = [calls EXCEPT
                    ![1].test_cases = ExtractInto(calls[1].test_cases, calls[c].cleaned.s,
                                                  calls[c].testcase_ids[calls[c].i]),
                    ![c].i = @ + 1,
                    ![c].overlapped = @ \/ Busy(c)]
    /\ UNCHANGED <<request, deployment>>

\* lines 28-72 of call c: one iteration, appending to the list of this call
CallExtractOne(c) ==
    /\ calls[c].pc = "loop"
    /\ calls[c].i <= Len(calls[c].testcase_ids)
    /\ calls' = [calls EXCEPT
                    ![c].test_cases = ExtractInto(calls[c].test_cases, calls[c].cleaned.s,
                                                  calls[c].testcase_ids[calls[c].i]),
                    ![c].i = @ + 1,
                    ![c].overlapped = @ \/ Busy(c)]
    /\ UNCHANGED <<request, deployment>>

\* lines 78-79, 119-145 of call c
CallFinish(c) ==
    /\ calls[c].pc = "loop"
    /\ calls[c].i > Len(calls[c].testcase_ids)
    /\ calls' = [calls EXCEPT
                    ![c].answer = IF EnoughCases(calls[c].test_cases)
                                  THEN Returned(BuildResult(calls[c].test_cases))
                                  ELSE HTTP500("Only extracted test cases from response",
                                               Len(calls[c].test_cases)),
                    ![c].pc = "done",
                    ![c].overlapped = @ \/ Busy(c)]
    /\ UNCHANGED <<request, deployment>>

ConcNext ==
    \/ \E c \in Calls : CallReplies(c)
    \/ \E c \in Calls : CallClean(c)
    \/ \E c \in Calls : CallDirectJSON(c)
    \/ \E c \in Calls : CallFindIds(c)
    \/ \E c \in Calls : CallExtractOne(c)
    \/ \E c \in Calls : CallFinish(c)

ConcurrentSpec == ConcInit /\ [][ConcNext]_vars

\* lines 104-145 run alone on one answer
CoreAnswer(response) ==
    LET text == clean_json_response(response).s
        parsed == json_loads(text)
        outcome == IF parsed.ok THEN DirectOutcome(parsed.val) ELSE "recover"
    IN  IF outcome = "return" THEN Returned(parsed.val)
        ELSE IF outcome = "TypeError" THEN HTTP500("TypeError", 0)
        ELSE RecoveryAnswer(text)

\* C20: however the steps of the calls interleave, the list a call is
\* building holds only records of its own text, a finished call has the
\* answer it has when run alone, and calls with equal texts have equal answers
C20_CallIndependence ==
    \A c \in Calls :
        /\ calls[c].pc = "loop"
               => calls[c].test_cases
                      = ExtractFrom(<<>>, calls[c].cleaned.s,
                                    SubSeq(calls[c].testcase_ids, 1, calls[c].i - 1), 1)
        /\ calls[c].pc = "done" => calls[c].answer = CoreAnswer(calls[c].raw_result)
        /\ \A d \in Calls :
               (/\ calls[c].pc = "done" /\ calls[d].pc = "done"
                /\ calls[c].raw_result = calls[d].raw_result)
                   => calls[c].answer = calls[d].answer

C20_Witness ==
    /\ \A c \in Calls : calls[c].pc = "done" /\ calls[c].overlapped
    /\ calls[1].raw_result # calls[2].raw_result
    /\ calls[1].answer.status = 200
    /\ calls[1].testcase_ids # <<>>
    /\ calls[2].answer.status = 500
    /\ calls[2].testcase_ids # <<>>

\* ------------------------------------------------- recovery after rejection
\* the strict parse of the normalized text is over and did not return the
\* document (parse error, a value that is no document, too few test cases)
FastPathRejected ==
    /\ Normalized
    /\ pc \in {"recover", "loop", "done"}
    /\ ~InLog("Direct JSON worked")

\* C21: whenever the strict parse of the normalized text does not return an
\* accepted TestCases collection, super_simple_extraction runs on the
\* normalized text before the outcome is decided: no request ends with the
\* fast path rejected and the extraction never called
C21_RecoveryAfterRejection ==
    (pc = "done" /\ FastPathRejected) => Extracting

\* ------------------------------------------ super_simple_extraction alone
\* the six fields that follow the identifier, in the order the agent
\* writes them
FieldNames6 ==
    <<"TestDescription", "ExpectedOutput", "TestSteps", "PassFailCriteria",
      "TestCaseType", "Subtype">>

Range6 == {FieldNames6[k] : k \in 1..Len(FieldNames6)}

\* the value a record states for a scalar field; records come with one of
\* two sets of values
ValueOf(name, v) ==
    IF name = "TestDescription" THEN (IF v = 1 THEN "d1" ELSE "d2")
    ELSE IF name = "ExpectedOutput" THEN (IF v = 1 THEN "e1" ELSE "e2")
    ELSE IF name = "PassFailCriteria" THEN (IF v = 1 THEN "p1" ELSE "p2")
    ELSE IF name = "TestCaseType" THEN (IF v = 1 THEN "REGRESSION" ELSE "EDGE")
    ELSE (IF v = 1 THEN "NEGATIVE" ELSE "MAYBE")

\* the step strings a record states, as they stand between their quotes:
\* two plain steps, a step that holds a closing bracket, a step that holds
\* an escaped quote, or none
StepKinds == {"plain", "bracket", "escaped", "none"}

StepsOf(kind, v) ==
    IF kind = "plain" THEN (IF v = 1 THEN <<W("s1"), W("s2")>> ELSE <<W("s2"), W("s1")>>)
    ELSE IF kind = "bracket" THEN <<<<"s1", RBRACK>>, W("s2")>>
    ELSE IF kind = "escaped" THEN <<<<"s1", BSLASH, QUOTE, "s2">>, W("s1")>>
    ELSE <<>>

RECURSIVE StepsText(_, _)
\* "step","step",... from the k-th step on
StepsText(steps, k) ==
    IF k > Len(steps) THEN <<>>
    ELSE <<QUOTE>> \o steps[k] \o <<QUOTE>>
         \o (IF k < Len(steps) THEN <<COMMA>> ELSE <<>>)
         \o StepsText(steps, k + 1)

\* "TestSteps":[...]
StepsField(kind, v) ==
    Quoted("TestSteps") \o <<COLON, LBRACK>> \o StepsText(StepsOf(kind, v), 1) \o <<RBRACK>>

RECURSIVE FieldsText(_, _, _, _)
\* ,"name":"value" for the fields of `present` from the k-th name on
FieldsText(present, kind, v, k) ==
    IF k > Len(FieldNames6) THEN <<>>
    ELSE (IF FieldNames6[k] \notin present THEN <<>>
          ELSE IF FieldNames6[k] = "TestSteps" THEN <<COMMA>> \o StepsField(kind, v)
          ELSE <<COMMA>> \o Field(FieldNames6[k], ValueOf(FieldNames6[k], v)))
         \o FieldsText(present, kind, v, k + 1)

\* the text of a test case object that states the fields of `present`
Record(id, present, kind, v) ==
    <<LBRACE>> \o Field("TestCaseID", id) \o FieldsText(present, kind, v, 1) \o <<RBRACE>>

\* one record with a TestSteps block of each kind, alone or among other fields
StepsInputs ==
    {Record("TC1", present, kind, 1) :
        present \in {{"TestSteps"}, {"TestDescription", "TestSteps", "PassFailCriteria"}},
        kind \in StepKinds}

\* one record for every subset of the six fields, alone or followed by a
\* second record that states other values for some fields
LaterFields == {{}, {"TestDescription", "TestSteps"}, {"ExpectedOutput", "TestCaseType", "Subtype"}}

Pair(own, later) ==
    Record("TC1", own, "plain", 1) \o <<COMMA>> \o Record("TC2", later, "plain", 2)

SubsetInputs ==
    {Record("TC1", own, "plain", 1) : own \in SUBSET Range6}
    \cup {Pair(own, later) : own \in SUBSET Range6, later \in LaterFields}

\* two long records: the PassFailCriteria of the second one lies within
\* the 1000 characters that follow the first identifier, across their end,
\* or beyond them, depending on the filler
Fillers == {"x100", "x496", "x497", "x510", "x518", "x519", "x600"}

LongPair(filler) ==
    <<LBRACE>> \o Field("TestCaseID", "TC1") \o <<COMMA>>
    \o Field("TestDescription", "x400") \o <<RBRACE, COMMA, LBRACE>>
    \o Field("TestCaseID", "TC2") \o <<COMMA>>
    \o Field("ExpectedOutput", filler) \o <<COMMA>>
    \o Field("PassFailCriteria", "p1") \o <<RBRACE>>

\* two records with the same identifier, next to each other or more than
\* 1000 characters apart
RepeatedNear ==
    <<LBRACE>> \o Field("TestCaseID", "TC1") \o <<COMMA>>
    \o Field("TestDescription", "d1") \o <<RBRACE, COMMA, LBRACE>>
    \o Field("TestCaseID", "TC1") \o <<COMMA>>
    \o Field("ExpectedOutput", "e1") \o <<RBRACE>>

RepeatedFar ==
    <<LBRACE>> \o Field("TestCaseID", "TC1") \o <<COMMA>>
    \o Field("TestDescription", "d1") \o <<COMMA>>
    \o Field("ExpectedOutput", "x1000") \o <<RBRACE, COMMA, LBRACE>>
    \o Field("TestCaseID", "TC1") \o <<COMMA>>
    \o Field("PassFailCriteria", "p1") \o <<RBRACE>>

WindowInputs == {LongPair(filler) : filler \in Fillers} \cup {RepeatedNear, RepeatedFar}

\* three plain records whose identifiers come in any order, repeats included
OrderPlans == {<<<<a, "bare">>, <<b, "bare">>, <<c, "bare">>>> : a, b, c \in 1..3}

OrderInputs == {Blocks(plan, 1) : plan \in OrderPlans}

ExtractorInputs == StepsInputs \cup SubsetInputs \cup WindowInputs \cup OrderInputs

\* super_simple_extraction is called on a text
ExtInit ==
    /\ pc = "recover"
    /\ cleaned \in {PyStr(t) : t \in ExtractorInputs}
    /\ raw_result = cleaned
    /\ result = ParseFail
    /\ testcase_ids = <<>>
    /\ i = 0
    /\ test_cases = <<>>
    /\ failed = <<>>
    /\ answer = NoAnswer
    /\ log = <<>>
    /\ calls = <<>>
    /\ NoDeployment

\* lines 78-79: the loop is over and the list is returned
ExtractionReturns ==
    /\ pc = "loop"
    /\ i > Len(testcase_ids)
    /\ log' = Append(log, "Final extraction result")
    /\ pc' = "returned"
    /\ UNCHANGED <<deployment, calls, raw_result, cleaned, result, testcase_ids, i, test_cases, failed, answer>>

ExtNext ==
    \/ FindIds
    \/ ExtractOne
    \/ ExtractFault
    \/ ExtractionReturns

ExtractorSpec == ExtInit /\ [][ExtNext]_vars

\* the steps a record is to have: the strings of its block, the three
\* generic steps when the block holds none
StepsStated(kind, v) ==
    IF StepsOf(kind, v) = <<>> THEN DefaultSteps
    ELSE [k \in 1..Len(StepsOf(kind, v)) |-> JStr(StepsOf(kind, v)[k])]

\* C22: a record whose TestSteps block is present in its window has as
\* TestSteps exactly the quoted strings of its own bracketed block, in
\* textual order, also when a step holds a closing bracket or an escaped
\* quote
C22_StepsExtraction ==
    \A present \in SUBSET {"TestDescription", "TestSteps", "PassFailCriteria"}, kind \in StepKinds :
        (/\ pc = "returned"
         /\ failed = <<>>
         /\ "TestSteps" \in present
         /\ cleaned.s = Record("TC1", present, kind, 1))
        => /\ Len(test_cases) = 1
           /\ DictGet(test_cases[1], W("TestSteps")) = JArr(StepsStated(kind, 1))

\* the value of a field as a record of value set v states it
StatedValue(name, v) ==
    IF name = "TestSteps" THEN JArr(StepsStated("plain", v))
    ELSE JStr(W(ValueOf(name, v)))

\* the fixed default of a field
DefaultValue(name, id) ==
    IF name = "TestDescription" THEN JStr(<<"Validation test for ", id>>)
    ELSE IF name = "ExpectedOutput" THEN JStr(W("Expected system behavior validated"))
    ELSE IF name = "TestSteps"
    THEN JArr(<<JStr(W("Execute test validation")), JStr(W("Verify expected behavior")),
                JStr(W("Confirm test results"))>>)
    ELSE IF name = "PassFailCriteria"
    THEN JStr(W("Test passes when validation criteria are met"))
    ELSE IF name = "TestCaseType" THEN JStr(W("FUNCTIONAL"))
    ELSE JStr(W("POSITIVE"))

\* the record of `id` when its window states the fields of `own` with the
\* values v and, further on, the fields of `later` with the values w: each
\* field has the first value stated in the window, its default if none is
WindowRecord(id, own, v, later, w) ==
    JObj(Field7,
         <<JStr(W(id))>>
         \o [k \in 1..Len(FieldNames6) |->
                IF FieldNames6[k] \in own THEN StatedValue(FieldNames6[k], v)
                ELSE IF FieldNames6[k] \in later THEN StatedValue(FieldNames6[k], w)
                ELSE DefaultValue(FieldNames6[k], id)])

\* C23: for every subset of the six fields present in a record's window,
\* each present field has the value found in the text and each field
\* unmatched in the window has its fixed default; which fields are absent
\* changes nothing in the value of the others
C23_FieldIndependence ==
    (pc = "returned" /\ failed = <<>>) =>
        \A own \in SUBSET Range6 :
            /\ cleaned.s = Record("TC1", own, "plain", 1)
               => test_cases = <<WindowRecord("TC1", own, 1, {}, 1)>>
            /\ \A later \in LaterFields :
                   cleaned.s = Pair(own, later)
                   => test_cases = <<WindowRecord("TC1", own, 1, later, 2),
                                     WindowRecord("TC2", later, 2, {}, 2)>>

\* a record that states its ExpectedOutput and Subtype only was extracted
C23_Witness ==
    /\ pc = "returned"
    /\ failed = <<>>
    /\ cleaned.s = Record("TC1", {"ExpectedOutput", "Subtype"}, "plain", 1)
    /\ Len(test_cases) = 1
    /\ DictGet(test_cases[1], W("ExpectedOutput")) = JStr(W("e1"))
    /\ DictGet(test_cases[1], W("Subtype")) = JStr(W("NEGATIVE"))
    /\ DictGet(test_cases[1], W("TestDescription")) = JStr(<<"Validation test for ", "TC1">>)
    /\ DictGet(test_cases[1], W("TestCaseType")) = JStr(W("FUNCTIONAL"))

\* the k-th smallest element of a set of positions
Nth(S, k) == CHOOSE p \in S : Cardinality({q \in S : q < p}) = k - 1

\* the record whose fields are searched only in the span that starts at
\* position p and extends WINDOW characters forward
SpanRecord(text, p) ==
    LET e == IF RangeWidth(text, p, Len(text)) <= 1000 THEN Len(text)
             ELSE Min({k \in p..Len(text) : RangeWidth(text, p, k) > 1000}) - 1
    IN  BuildTestCase(SubSeq(text, p, e), 1, MatchFieldAt(text, p, "TestCaseID").group)

\* C24: the fields of the record built for an identifier occurrence are
\* searched only in the span that starts at that occurrence and extends
\* 1000 characters forward; a field that starts outside that span is not
\* attributed to the record, which gets the default for it
C24_BoundedWindow ==
    (pc = "returned" /\ failed = <<>>) =>
        /\ Len(test_cases) = Cardinality(IdPositions(cleaned.s))
        /\ \A k \in 1..Len(test_cases) :
               test_cases[k] = SpanRecord(cleaned.s, Nth(IdPositions(cleaned.s), k))

\* the identifiers of the text from left to right
IdsInTextOrder(text) ==
    [k \in 1..Cardinality(IdPositions(text)) |->
        MatchFieldAt(text, Nth(IdPositions(text), k), "TestCaseID").group]

\* C25: the records returned by super_simple_extraction stand in the
\* left-to-right order in which their identifiers occur in the text (the
\* identifiers whose iteration faulted left out)
C25_DocumentOrder ==
    pc = "returned" =>
        [k \in 1..Len(test_cases) |-> DictGet(test_cases[k], W("TestCaseID")).str]
            = Kept(IdsInTextOrder(cleaned.s), failed, 1)

\* TC3, TC1, TC2 in the text gave the records of TC3, TC1, TC2
C25_Witness ==
    /\ pc = "returned"
    /\ failed = <<>>
    /\ cleaned.s = Blocks(<<<<3, "bare">>, <<1, "bare">>, <<2, "bare">>>>, 1)
    /\ Len(test_cases) = 3
    /\ DictGet(test_cases[1], W("TestCaseID")) = JStr(W("TC3"))
    /\ DictGet(test_cases[2], W("TestCaseID")) = JStr(W("TC1"))
    /\ DictGet(test_cases[3], W("TestCaseID")) = JStr(W("TC2"))

\* ------------------------------------------------------ auxiliary estimates
\* the number a summary gives under `key`
SummaryNumber(document, key) ==
    DictGet(DictGet(document, W("StatisticalSummary")), W(key)).num

\* C26: in every summary computed by the recovery path MappingRows and
\* UniqueAttributes both equal TotalTestCases divided by 3, rounded down,
\* and TotalTestCases is greater than 5
C26_AuxiliaryEstimates ==
    (pc = "done" /\ answer.status = 200 /\ Extracting) =>
        /\ SummaryNumber(answer.body, "TotalTestCases") > 5
        /\ SummaryNumber(answer.body, "MappingRows")
               = SummaryNumber(answer.body, "TotalTestCases") \div 3
        /\ SummaryNumber(answer.body, "UniqueAttributes")
               = SummaryNumber(answer.body, "TotalTestCases") \div 3

\* seven extracted test cases were returned with both estimates at 2
C26_Witness ==
    /\ pc = "done"
    /\ answer.status = 200
    /\ Extracting
    /\ Len(test_cases) = 7
    /\ SummaryNumber(answer.body, "TotalTestCases") = 7
    /\ SummaryNumber(answer.body, "MappingRows") = 2
    /\ SummaryNumber(answer.body, "UniqueAttributes") = 2

\* ------------------------------- ExternalFHIRAgentAccess.generate_test_cases
MaxEvents == 2       \* events of one stream

\* a part of an event's content: None stands for a part without a 'text'
\* key (a function call), a string for the text of a part that has one
Parts == {None, PyStr(<<>>), PyStr(<<LBRACE, RBRACE>>), PyStr(<<"Here">>)}

\* the events of a stream: an object that is no dict, a dict without
\* 'content', with content None, with a content that has no 'parts', or
\* with a content of no, one or two parts
Events ==
    {[kind |-> k, parts |-> <<>>] : k \in {"object", "nocontent", "nonecontent", "noparts"}}
    \cup {[kind |-> "parts", parts |-> ps] :
             ps \in {<<>>} \cup {<<p>> : p \in Parts} \cup {<<p, q>> : p, q \in Parts}}

RECURSIVE ScanParts_KeepFirst(_, _, _)
\* ScanParts keeping the first text it comes across
ScanParts_KeepFirst(parts, k, final) ==
    IF k > Len(parts) THEN final
    ELSE ScanParts_KeepFirst(parts, k + 1,
                             IF parts[k].none \/ ~final.none THEN final ELSE parts[k])

RECURSIVE ScanParts(_, _, _)
\* invoke_sdk.py lines 109-111, main.py lines 193-195: every part that has
\* a 'text' key overwrites final_response
ScanParts(parts, k, final) ==
    IF k > Len(parts) THEN final
    ELSE ScanParts(parts, k + 1, IF parts[k].none THEN final ELSE parts[k])

RECURSIVE ScanEvents(_, _, _, _)
\* invoke_sdk.py lines 105-111, main.py lines 190-195: the loop over the
\* events from the k-th on.  `raising` holds the kinds of event on which
\* the loop raises: 'parts' in None is a TypeError in invoke_sdk.py,
\* event.get on an object that is no dict an AttributeError in main.py;
\* every other event without parts is skipped.
ScanEvents(events, k, final, raising) ==
    IF k > Len(events) THEN [raised |-> FALSE, final |-> final]
    ELSE IF events[k].kind \in raising THEN [raised |-> TRUE, final |-> final]
    ELSE ScanEvents(events, k + 1, ScanParts(events[k].parts, 1, final), raising)

\* generate_test_cases is called
StreamInit ==
    /\ pc = "start"
    /\ raw_result = None
    /\ log = <<>>
    /\ NoParsing
    /\ NoDeployment

\* lines 65-67: get_agent returned None
AgentMissing ==
    /\ pc = "start"
    /\ raw_result' = None
    /\ log' = Append(log, "Failed to connect to agent")
    /\ pc' = "returned"
    /\ UNCHANGED <<parsing, deployment>>

\* lines 65-96: the agent was found, the session created, the query sent
AgentFound ==
    /\ pc = "start"
    /\ response_events' = <<>>
    /\ pc' = "streaming"
    /\ UNCHANGED <<raw_result, log, parsing, final_response, env, config, app,
                   remote_agent, invoked>>

\* lines 97-102: one more event of the stream
EventArrives ==
    /\ pc = "streaming"
    /\ Len(response_events) < MaxEvents
    /\ \E event \in Events : response_events' = Append(response_events, event)
    /\ UNCHANGED <<pc, raw_result, log, parsing, final_response, env, config, app,
                   remote_agent, invoked>>

\* lines 71-102, 120-122: create_session or the stream raises
StreamRaises ==
    /\ pc = "streaming"
    /\ raw_result' = None
    /\ log' = Append(log, "Error generating test cases")
    /\ pc' = "returned"
    /\ UNCHANGED <<parsing, deployment>>

\* lines 104-122: the stream is over; the response is selected and returned
SelectResponse ==
    /\ pc = "streaming"
    /\ LET scan == ScanEvents(response_events, 1, None, {"nonecontent"})
       IN  /\ final_response' = scan.final
           /\ raw_result' = IF ~scan.raised /\ Truthy(scan.final) THEN scan.final ELSE None
           /\ log' = Append(log, IF scan.raised THEN "Error generating test cases"
                                 ELSE IF Truthy(scan.final)
                                 THEN "Test cases generated successfully"
                                 ELSE "No response received")
    /\ pc' = "returned"
    /\ UNCHANGED <<parsing, response_events, env, config, app, remote_agent, invoked>>

StreamNext ==
    \/ AgentMissing
    \/ AgentFound
    \/ EventArrives
    \/ StreamRaises
    \/ SelectResponse

StreamSpec == StreamInit /\ [][StreamNext]_vars

\* the places <<event, part>> of the parts that carry a 'text' key
TextPlaces(events) ==
    UNION {{<<k, j>> : j \in {m \in 1..Len(events[k].parts) : ~events[k].parts[m].none}} :
              k \in {n \in 1..Len(events) : events[n].kind = "parts"}}

\* the text of the last part that carries one, None if no part does
LastText(events) ==
    IF TextPlaces(events) = {} THEN None
    ELSE LET last == CHOOSE a \in TextPlaces(events) :
                         \A b \in TextPlaces(events) :
                             b[1] < a[1] \/ (b[1] = a[1] /\ b[2] <= a[2])
         IN  events[last[1]].parts[last[2]]

\* C27 as stated: after the events are collected generate_test_cases
\* returns the text of the last part carrying a 'text' key, and None when
\* no event carries text or a step raises
C27_LastText ==
    pc = "returned" =>
        IF InLog("Error generating test cases") \/ InLog("Failed to connect to agent")
        THEN raw_result = None
        ELSE raw_result = LastText(response_events)

\* C27 amended: after the events are collected generate_test_cases returns
\* the text of the last part carrying a 'text' key when that text is not
\* empty (later text overwrites earlier text, nothing is concatenated), and
\* None when that text is empty, when no event carries text or when a
\* step raises
C27_LastNonEmptyText ==
    pc = "returned" =>
        IF InLog("Error generating test cases") \/ InLog("Failed to connect to agent")
        THEN raw_result = None
        ELSE raw_result = IF Truthy(LastText(response_events))
                          THEN LastText(response_events) ELSE None

\* two events carried text, "Here" first and "{}" last, and "{}" was returned
C27_Witness ==
    /\ pc = "returned"
    /\ Len(response_events) = 2
    /\ response_events[1] = [kind |-> "parts", parts |-> <<PyStr(<<"Here">>)>>]
    /\ response_events[2] = [kind |-> "parts", parts |-> <<PyStr(<<LBRACE, RBRACE>>), None>>]
    /\ InLog("Test cases generated successfully")
    /\ raw_result = PyStr(<<LBRACE, RBRACE>>)

\* ------------------------------------------------------ get_project_config
\* the values of environment variables are strings of single characters,
\* names of projects and buckets being one lexeme each
UpperCase ==
    [c \in {"T"} |-> "t"] @@ [c \in {"R"} |-> "r"] @@ [c \in {"U"} |-> "u"]
    @@ [c \in {"E"} |-> "e"] @@ [c \in {"F"} |-> "f"] @@ [c \in {"A"} |-> "a"]
    @@ [c \in {"L"} |-> "l"] @@ [c \in {"S"} |-> "s"] @@ [c \in {"Y"} |-> "y"]

\* str.lower()
Lower(s) == [k \in 1..Len(s) |-> IF s[k] \in DOMAIN UpperCase THEN UpperCase[s[k]] ELSE s[k]]

\* os.getenv(name, default)
GetEnv(e, name, default) == IF e[name].none THEN PyStr(default) ELSE e[name]

\* what get_project_config does when it raises ValueError
Raised(message) ==
    [error |-> message, use_impersonation |-> FALSE, storage_project |-> None,
     compute_project |-> None, staging_bucket |-> None]

\* get_project_config comparing the variable with "true" as it stands
get_project_config_CaseSensitive(e) ==
    IF GetEnv(e, "USE_CROSS_PROJECT_DEPLOYMENT", <<"f", "a", "l", "s", "e">>).s
           = <<"t", "r", "u", "e">>
    THEN [error |-> "", use_impersonation |-> TRUE,
          storage_project |-> GetEnv(e, "STORAGE_PROJECT", <<"anbc-dev">>),
          compute_project |-> GetEnv(e, "COMPUTE_PROJECT", <<"anbc-dev-cdr-de">>),
          staging_bucket |-> GetEnv(e, "CROSS_PROJECT_STAGING_BUCKET",
                                    <<"gs://anbc-dev-vertex-staging">>)]
    ELSE IF ~Truthy(e["GOOGLE_CLOUD_PROJECT"])
    THEN Raised("GOOGLE_CLOUD_PROJECT not set in .env file")
    ELSE IF ~Truthy(e["STAGING_BUCKET"])
    THEN Raised("STAGING_BUCKET not set in .env file")
    ELSE [error |-> "", use_impersonation |-> FALSE,
          storage_project |-> e["GOOGLE_CLOUD_PROJECT"],
          compute_project |-> e["GOOGLE_CLOUD_PROJECT"],
          staging_bucket |-> e["STAGING_BUCKET"]]

\* main.py lines 57-101: the configuration, or the ValueError raised
get_project_config(e) ==
    IF Lower(GetEnv(e, "USE_CROSS_PROJECT_DEPLOYMENT", <<"f", "a", "l", "s", "e">>).s)
           = <<"t", "r", "u", "e">>
    THEN [error |-> "", use_impersonation |-> TRUE,
          storage_project |-> GetEnv(e, "STORAGE_PROJECT", <<"anbc-dev">>),
          compute_project |-> GetEnv(e, "COMPUTE_PROJECT", <<"anbc-dev-cdr-de">>),
          staging_bucket |-> GetEnv(e, "CROSS_PROJECT_STAGING_BUCKET",
                                    <<"gs://anbc-dev-vertex-staging">>)]
    ELSE IF ~Truthy(e["GOOGLE_CLOUD_PROJECT"])
    THEN Raised("GOOGLE_CLOUD_PROJECT not set in .env file")
    ELSE IF ~Truthy(e["STAGING_BUCKET"])
    THEN Raised("STAGING_BUCKET not set in .env file")
    ELSE [error |-> "", use_impersonation |-> FALSE,
          storage_project |-> e["GOOGLE_CLOUD_PROJECT"],
          compute_project |-> e["GOOGLE_CLOUD_PROJECT"],
          staging_bucket |-> e["STAGING_BUCKET"]]

\* "true" in every letter case
TrueInAnyCase ==
    {<<a, b, c, d>> : a \in {"t", "T"}, b \in {"r", "R"}, c \in {"u", "U"}, d \in {"e", "E"}}

\* the environments: the switch unset, empty, "true" in any letter case or
\* something else; the other variables unset, empty or set
Envs ==
    {[name \in EnvNames |->
         IF name = "USE_CROSS_PROJECT_DEPLOYMENT" THEN use
         ELSE IF name = "GOOGLE_CLOUD_PROJECT" THEN project
         ELSE IF name = "STAGING_BUCKET" THEN bucket
         ELSE IF name = "STORAGE_PROJECT" THEN storage
         ELSE IF name = "COMPUTE_PROJECT" THEN compute
         ELSE None] :
        use \in {None} \cup {PyStr(t) : t \in TrueInAnyCase
                     \cup {<<>>, <<"f", "a", "l", "s", "e">>, <<"F", "A", "L", "S", "E">>,
                           <<"y", "e", "s">>, <<"1">>, <<"t", "r", "u", "e", SP>>}},
        project \in {None, PyStr(<<>>), PyStr(<<"p1">>)},
        bucket \in {None, PyStr(<<>>), PyStr(<<"gs://b1">>)},
        storage \in {None, PyStr(<<"p2">>)},
        compute \in {None, PyStr(<<"p1">>)}}

\* get_project_config is called in some environment
ConfigInit ==
    /\ pc = "config"
    /\ raw_result = None
    /\ log = <<>>
    /\ NoParsing
    /\ response_events = <<>>
    /\ final_response = None
    /\ env \in Envs
    /\ config = NoConfig
    /\ app = "None"
    /\ remote_agent = "None"
    /\ invoked = <<>>

\* main.py lines 57-101
GetProjectConfig ==
    /\ pc = "config"
    /\ config' = get_project_config(env)
    /\ invoked' = Append(invoked, "get_project_config")
    /\ pc' = IF config'.error = "" THEN "configured" ELSE "raised"
    /\ UNCHANGED <<raw_result, log, parsing, response_events, final_response, env, app,
                   remote_agent>>

ConfigNext == GetProjectConfig

ConfigSpec == ConfigInit /\ [][ConfigNext]_vars

\* the switch selects the cross-project mode
CrossProject == ~env["USE_CROSS_PROJECT_DEPLOYMENT"].none
                /\ env["USE_CROSS_PROJECT_DEPLOYMENT"].s \in TrueInAnyCase

\* C30 as stated: in single-project mode get_project_config raises
\* ValueError when GOOGLE_CLOUD_PROJECT is unset or STAGING_BUCKET is unset
\* and otherwise returns a config with use_impersonation False whose
\* storage_project equals compute_project; in cross-project mode ("true" in
\* any letter case) it never raises and returns use_impersonation True
C30_ProjectConfig ==
    pc \in {"configured", "raised"} =>
        IF CrossProject
        THEN pc = "configured" /\ config.use_impersonation
        ELSE IF env["GOOGLE_CLOUD_PROJECT"].none \/ env["STAGING_BUCKET"].none
        THEN pc = "raised"
        ELSE /\ pc = "configured"
             /\ ~config.use_impersonation
             /\ config.storage_project = config.compute_project

\* C30 amended: in single-project mode get_project_config raises ValueError
\* when GOOGLE_CLOUD_PROJECT is unset or empty or when STAGING_BUCKET is
\* unset or empty, and otherwise returns a config with use_impersonation
\* False whose storage_project equals compute_project; in cross-project
\* mode it never raises and returns use_impersonation True
C30_ProjectConfigNonEmpty ==
    pc \in {"configured", "raised"} =>
        IF CrossProject
        THEN pc = "configured" /\ config.use_impersonation
        ELSE IF \/ env["GOOGLE_CLOUD_PROJECT"] \in {None, PyStr(<<>>)}
                \/ env["STAGING_BUCKET"] \in {None, PyStr(<<>>)}
        THEN pc = "raised"
        ELSE /\ pc = "configured"
             /\ ~config.use_impersonation
             /\ config.storage_project = config.compute_project

\* single-project mode with the project set and STAGING_BUCKET set to the
\* empty string: ValueError
C30_Witness ==
    /\ pc = "raised"
    /\ env["USE_CROSS_PROJECT_DEPLOYMENT"] = PyStr(<<"F", "A", "L", "S", "E">>)
    /\ env["GOOGLE_CLOUD_PROJECT"] = PyStr(<<"p1">>)
    /\ env["STAGING_BUCKET"] = PyStr(<<>>)
    /\ config.error = "STAGING_BUCKET not set in .env file"

\* ------------------------------------------------- main.py in deploy mode
\* a single-project environment, a cross-project one, and one without
\* configuration
DeployEnvs ==
    {[NoEnv EXCEPT !["GOOGLE_CLOUD_PROJECT"] = PyStr(<<"p1">>),
                   !["STAGING_BUCKET"] = PyStr(<<"gs://b1">>)],
     [NoEnv EXCEPT !["USE_CROSS_PROJECT_DEPLOYMENT"] = PyStr(<<"t", "r", "u", "e">>)],
     NoEnv}

\* `python main.py deploy` starts
DeployInit ==
    /\ pc = "main"
    /\ raw_result = None
    /\ log = <<>>
    /\ NoParsing
    /\ response_events = <<>>
    /\ final_response = None
    /\ env \in DeployEnvs
    /\ config = NoConfig
    /\ app = "None"
    /\ remote_agent = "None"
    /\ invoked = <<>>

\* lines 471-481: the configuration is read; a ValueError ends the program
MainConfig ==
    /\ pc = "main"
    /\ config' = get_project_config(env)
    /\ invoked' = Append(invoked, "get_project_config")
    /\ pc' = IF config'.error = "" THEN "local" ELSE "raised"
    /\ UNCHANGED <<raw_result, log, parsing, response_events, final_response, env, app,
                   remote_agent>>

\* lines 484, 149-164: test_local_agent is called and initialize_vertex_ai
\* returns False
LocalInitFails ==
    /\ pc = "local"
    /\ invoked' = Append(invoked, "test_local_agent")
    /\ app' = "None"
    /\ log' = Append(log, "Vertex AI initialization failed")
    /\ pc' = "local_returned"
    /\ UNCHANGED <<raw_result, parsing, response_events, final_response, env, config,
                   remote_agent>>

\* lines 484, 149-182: test_local_agent is called, Vertex AI is
\* initialised, the app is created and the query sent
LocalStarts ==
    /\ pc = "local"
    /\ invoked' = Append(invoked, "test_local_agent")
    /\ response_events' = <<>>
    /\ pc' = "query"
    /\ UNCHANGED <<raw_result, log, parsing, final_response, env, config, app, remote_agent>>

\* lines 183-188: one more event of the stream
LocalEvent ==
    /\ pc = "query"
    /\ Len(response_events) < MaxEvents
    /\ \E event \in Events : response_events' = Append(response_events, event)
    /\ UNCHANGED <<pc, raw_result, log, parsing, final_response, env, config, app,
                   remote_agent, invoked>>

\* lines 166-188, 216-218: creating the app or the stream raises
LocalRaises ==
    /\ pc = "query"
    /\ app' = "None"
    /\ log' = Append(log, "Local test error")
    /\ pc' = "local_returned"
    /\ UNCHANGED <<raw_result, parsing, response_events, final_response, env, config,
                   remote_agent, invoked>>

\* LocalSelect returning None when the response is no JSON
LocalSelect_NeedsJSON ==
    /\ pc = "query"
    /\ LET scan == ScanEvents(response_events, 1, None, {"object"})
           parses == json_loads(clean_json_response(scan.final).s).ok
       IN  /\ final_response' = scan.final
           /\ app' = IF ~scan.raised /\ Truthy(scan.final) /\ parses THEN "AdkApp" ELSE "None"
           /\ log' = IF scan.raised THEN Append(log, "Local test error")
                     ELSE IF ~Truthy(scan.final)
                     THEN Append(log, "Local test failed - no response")
                     ELSE log \o <<"Local test successful",
                                   IF parses THEN "JSON parsing successful"
                                   ELSE "JSON parsing failed">>
    /\ pc' = "local_returned"
    /\ UNCHANGED <<raw_result, parsing, response_events, env, config, remote_agent, invoked>>

\* lines 190-218: the stream is over; the response is selected, cleaned and
\* parsed, and the app is returned whether it parses or not
LocalSelect ==
    /\ pc = "query"
    /\ LET scan == ScanEvents(response_events, 1, None, {"object"})
           parses == json_loads(clean_json_response(scan.final).s).ok
       IN  /\ final_response' = scan.final
           /\ app' = IF ~scan.raised /\ Truthy(scan.final) THEN "AdkApp" ELSE "None"
           /\ log' = IF scan.raised THEN Append(log, "Local test error")
                     ELSE IF ~Truthy(scan.final)
                     THEN Append(log, "Local test failed - no response")
                     ELSE log \o <<"Local test successful",
                                   IF parses THEN "JSON parsing successful"
                                   ELSE "JSON parsing failed">>
    /\ pc' = "local_returned"
    /\ UNCHANGED <<raw_result, parsing, response_events, env, config, remote_agent, invoked>>

\* lines 485-487: without an app main returns
MainStops ==
    /\ pc = "local_returned"
    /\ app = "None"
    /\ log' = Append(log, "Local test failed. Fix issues before deployment.")
    /\ pc' = "end"
    /\ UNCHANGED <<raw_result, parsing, deployment>>

\* Deploy whatever the local test returned
Deploy_Unguarded ==
    /\ pc = "local_returned"
    /\ invoked' = Append(invoked, "deploy_to_agent_engine")
    /\ \E deployed \in BOOLEAN :
           remote_agent' = IF deployed THEN "remote_agent" ELSE "None"
    /\ pc' = "deployed"
    /\ UNCHANGED <<raw_result, log, parsing, response_events, final_response, env, config, app>>

\* lines 490, 220-289: deploy_to_agent_engine(app) returns the remote agent,
\* or None when anything in it raises
Deploy ==
    /\ pc = "local_returned"
    /\ app # "None"
    /\ invoked' = Append(invoked, "deploy_to_agent_engine")
    /\ \E deployed \in BOOLEAN :
           remote_agent' = IF deployed THEN "remote_agent" ELSE "None"
    /\ pc' = "deployed"
    /\ UNCHANGED <<raw_result, log, parsing, response_events, final_response, env, config, app>>

\* lines 491-505: the deployed agent is tested
TestDeployed ==
    /\ pc = "deployed"
    /\ remote_agent # "None"
    /\ invoked' = Append(invoked, "test_deployed_agent")
    /\ log' = Append(log, "DEPLOYMENT COMPLETE")
    /\ pc' = "end"
    /\ UNCHANGED <<raw_result, parsing, response_events, final_response, env, config, app,
                   remote_agent>>

\* lines 491, 505: without a remote agent main returns
MainEnds ==
    /\ pc = "deployed"
    /\ remote_agent = "None"
    /\ pc' = "end"
    /\ UNCHANGED <<raw_result, log, parsing, deployment>>

DeployNext ==
    \/ MainConfig
    \/ LocalInitFails
    \/ LocalStarts
    \/ LocalEvent
    \/ LocalRaises
    \/ LocalSelect
    \/ MainStops
    \/ Deploy
    \/ TestDeployed
    \/ MainEnds

DeploySpec == DeployInit /\ [][DeployNext]_vars

\* the place of a function in the sequence of calls, 0 if it was not called
CalledAt(name) ==
    IF \E k \in 1..Len(invoked) : invoked[k] = name
    THEN Min({k \in 1..Len(invoked) : invoked[k] = name})
    ELSE 0

\* test_local_agent has returned
LocalReturned == pc \in {"local_returned", "deployed", "end"}

\* C28: in deploy mode deploy_to_agent_engine is invoked only after
\* test_local_agent returned an app, and test_deployed_agent only after
\* deploy_to_agent_engine returned a remote agent; when the local test
\* returns None nothing is deployed, and when deployment returns None the
\* deployed agent is not tested
C28_DeploymentGating ==
    /\ CalledAt("deploy_to_agent_engine") # 0
       => /\ LocalReturned /\ app = "AdkApp"
          /\ 0 < CalledAt("test_local_agent")
          /\ CalledAt("test_local_agent") < CalledAt("deploy_to_agent_engine")
    /\ CalledAt("test_deployed_agent") # 0
       => /\ remote_agent = "remote_agent"
          /\ 0 < CalledAt("deploy_to_agent_engine")
          /\ CalledAt("deploy_to_agent_engine") < CalledAt("test_deployed_agent")
    /\ (LocalReturned /\ app = "None")
       => CalledAt("deploy_to_agent_engine") = 0 /\ CalledAt("test_deployed_agent") = 0
    /\ (pc = "end" /\ remote_agent = "None") => CalledAt("test_deployed_agent") = 0

\* the local test returned an app, the deployment a remote agent, and the
\* deployed agent was tested
C28_Witness ==
    /\ pc = "end"
    /\ app = "AdkApp"
    /\ remote_agent = "remote_agent"
    /\ invoked = <<"get_project_config", "test_local_agent", "deploy_to_agent_engine",
                   "test_deployed_agent">>

\* C29 as stated: test_local_agent returns the app whenever the agent
\* produced a text response, also when it fails JSON parsing after
\* cleaning, and returns None exactly when Vertex AI initialisation fails,
\* no event carries text, or an exception is raised in the query
C29_LocalTestOutcome ==
    LocalReturned =>
        (app = "None" <=> \/ InLog("Vertex AI initialization failed")
                          \/ InLog("Local test error")
                          \/ TextPlaces(response_events) = {})

\* C29 amended: test_local_agent returns the app whenever the last text the
\* agent produced is not empty, also when it fails JSON parsing after
\* cleaning, and returns None exactly when Vertex AI initialisation fails,
\* no event carries text, the last text carried is empty, or an exception
\* is raised in the query or while the events are read
C29_LocalTestOutcomeNonEmpty ==
    LocalReturned =>
        (app = "None" <=> \/ InLog("Vertex AI initialization failed")
                          \/ InLog("Local test error")
                          \/ ~Truthy(LastText(response_events)))

\* the agent answered "Here", which is no JSON after cleaning, and the app
\* was returned
C29_Witness ==
    /\ pc = "local_returned"
    /\ response_events = <<[kind |-> "parts", parts |-> <<PyStr(<<"Here">>)>>]>>
    /\ InLog("JSON parsing failed")
    /\ app = "AdkApp"

====
